---- MODULE Spec2Model ----
(***************************************************************************)
(* Serial drivers of the microscope repository.                            *)
(*                                                                         *)
(*   ThorlabsFilterWheel  (filterwheels/thorlabs.py)   SpecThorlabs        *)
(*   CoboltLaser          (lights/cobolt.py)           SpecCobolt          *)
(*   CoboltLaser06DPL     (lights/cobolt.py)           SpecCobolt06DPL     *)
(*   OperationMode        (lights/omicron.py)          SpecOperationMode   *)
(*   OmicronLaser         (lights/omicron.py)          SpecOmicron         *)
(*   ThorlabsFilterWheelController (filterwheels/thorlabs.py)              *)
(*                                                     SpecController      *)
(*   CoboltLaser, a laser that is busy                 SpecCoboltBusy      *)
(*   OmicronLaser, threads that keep running           SpecOmicronRunning  *)
(*   the software trigger of both lasers               SpecTrigger         *)
(*   the power of the Cobolt lasers                    SpecPower           *)
(*   faults, clearFault and reset                      SpecFault           *)
(*   _do_shutdown with a trigger's timer pending       SpecShutdown        *)
(*   set_standby from callers and timers               SpecStandby         *)
(*   overlapping software triggers                     SpecOverlap         *)
(*   the power level of OmicronLaser                   SpecOmicronPower    *)
(*   OmicronLaser.reset                                SpecReset           *)
(*   HDMIslm              (lights/meadowlark.py)       SpecSlm             *)
(*                                                                         *)
(* Byte strings are sequences of one-character strings.  Every driver is   *)
(* run by caller threads; a thread's control state is a stack of frames    *)
(* (the statements it still has to execute, innermost call first).  One    *)
(* action is one statement that touches the lock, the wire or the object.  *)
(***************************************************************************)
EXTENDS Integers, Sequences, FiniteSets, TLC

VARIABLES
    stack,      \* thread -> sequence of frames still to execute
    loc,        \* thread -> local variables of the running call
    lockOwner,  \* thread holding the reentrant lock, or NoThread
    lockCount,  \* recursion level of the reentrant lock
    tx,         \* host -> device: the writes the device has not yet processed
    rx,         \* device -> host: the bytes/lines the host has not yet read
    dev,        \* state of the device at the other end of the wire
    obj,        \* fields of the driver object
    ncalls,     \* number of operations started so far
    ntimeouts,  \* number of reads that timed out so far
    hist        \* history of the run (never read by the driver)

vars == <<stack, loc, lockOwner, lockCount, tx, rx, dev, obj, ncalls, ntimeouts, hist>>

\* ------------------------------------------------------------------ bounds
NThreads == 2      \* caller threads
MaxCalls == 2      \* operations started in one run
MaxTimeouts == 1   \* reads that time out in one run
MaxFrames == 2     \* ad-hoc frames the Omicron laser pushes in one run
MaxBad == 1        \* lines the Omicron laser answers with "!UK" in one run

Threads == 1..NThreads
NoThread == 0

\* ------------------------------------------------------------- byte strings
Digits == <<"0", "1", "2", "3", "4", "5", "6", "7", "8", "9">>

DigitVal(c) == CHOOSE i \in 0..9 : Digits[i + 1] = c

IsDigit(c) == \E i \in 1..10 : Digits[i] = c

\* "%d" % n for n >= 0
RECURSIVE FormatInt(_)
FormatInt(n) == IF n < 10 THEN <<Digits[n + 1]>>
                ELSE Append(FormatInt(n \div 10), Digits[(n % 10) + 1])

\* int(s) for a string of decimal digits; Bad when int() raises ValueError
Bad == -1

RECURSIVE ParseDigits(_, _)
ParseDigits(s, acc) == IF s = <<>> THEN acc
                       ELSE ParseDigits(Tail(s), 10 * acc + DigitVal(Head(s)))

ParseInt(s) == IF s # <<>> /\ \A i \in 1..Len(s) : IsDigit(s[i])
               THEN ParseDigits(s, 0) ELSE Bad

StartsWith(s, p) == Len(s) >= Len(p) /\ SubSeq(s, 1, Len(p)) = p

\* a test that takes every command for a query
EndsWith_always(s, c) == TRUE

EndsWith(s, c) == s # <<>> /\ s[Len(s)] = c

RECURSIVE LStrip(_, _)
LStrip(s, chars) == IF s # <<>> /\ Head(s) \in chars THEN LStrip(Tail(s), chars) ELSE s

RECURSIVE RStrip(_, _)
RStrip(s, chars) == IF s # <<>> /\ s[Len(s)] \in chars
                    THEN RStrip(SubSeq(s, 1, Len(s) - 1), chars) ELSE s

\* str.strip(chars)
Strip(s, chars) == RStrip(LStrip(s, chars), chars)

Whitespace == {" ", "\n", "\r", "\t"}

\* ------------------------------------------------------------ thread frames
F(op) == [op |-> op]

Top(t) == Head(stack[t])

At(t, op) == stack[t] # <<>> /\ Top(t).op = op

Idle(t) == stack[t] = <<>>

\* replace the frame on top of t's stack by the frames fs
Goto(t, fs) == stack' = [stack EXCEPT ![t] = fs \o Tail(stack[t])]


\* ------------------------------------------------- the reentrant lock (RLock)
\* a lock that excludes nobody
RLockFree_always(t) == TRUE

\* threading.RLock: free, or already held by the calling thread
RLockFree(t) == lockOwner \in {NoThread, t}

RLockAcquire(t) ==
    /\ lockOwner' = t
    /\ lockCount' = lockCount + 1

RLockRelease(t) ==
    /\ lockCount' = lockCount - 1
    /\ lockOwner' = IF lockCount = 1 THEN NoThread ELSE lockOwner

\* =========================================================================
\* ThorlabsFilterWheel (FW102C / FW212C), filterwheels/thorlabs.py
\* =========================================================================
eol == <<"\r">>

POS_Q == <<"p", "o", "s", "?">>
POS_SET == <<"p", "o", "s", "=">>
PROMPT == <<">", " ">>
DUMMY == <<"d", "u", "m", "m", "y">>

\* position counts of the wheels the driver knows (FW102C, FW212C)
PCounts == {6, 12}

\* the wheel's firmware: it echoes the command line, answers a query with a
\* value line, and prompts; a position outside 1..pcount is not taken
ThorValue(cmd, d) == IF cmd = POS_Q THEN <<FormatInt(d.pos)>> ELSE <<>>

ThorNewPos(cmd, d) ==
    IF StartsWith(cmd, POS_SET)
       /\ ParseInt(SubSeq(cmd, 5, Len(cmd))) \in 1..d.pcount
    THEN ParseInt(SubSeq(cmd, 5, Len(cmd)))
    ELSE d.pos

\* the bytes of one line of kind k, each tagged with the call that caused it
Tagged(s, k, call, p) == [i \in 1..Len(s) |-> [ch |-> s[i], kind |-> k, call |-> call, p |-> p]]

ThorDevice ==
    /\ tx # <<>>
    /\ LET m == Head(tx)
           cmd == RStrip(m.data, {"\r"})
           newpos == ThorNewPos(cmd, dev)
           d2 == [dev EXCEPT !.pos = newpos]
           lp == IF StartsWith(cmd, POS_SET) /\ newpos = ParseInt(SubSeq(cmd, 5, Len(cmd)))
                 THEN m.p ELSE hist.lastP
           val == ThorValue(cmd, d2)
       IN /\ dev' = d2
          /\ hist' = [hist EXCEPT !.lastP = lp]
          /\ rx' = rx \o Tagged(cmd \o eol, "echo", m.call, lp)
                      \o (IF val = <<>> THEN <<>> ELSE Tagged(val[1] \o eol, "value", m.call, lp))
                      \o Tagged(PROMPT, "prompt", m.call, lp)
    /\ tx' = Tail(tx)
    /\ UNCHANGED <<stack, loc, lockOwner, lockCount, obj, ncalls, ntimeouts>>

\* io.TextIOWrapper(newline=None): "\r" is read as "\n"
TextIOWrapper_translate(c) == IF c = "\r" THEN "\n" ELSE c

\* the frames of one call of _readline
readline == <<F("rl_acquire"), F("rl_read"), F("rl_release")>>

\* the frames of one call of _send_command
send_command == <<F("sc_acquire"), F("sc_write"), F("sc_release")>>

ThorLocals(op, command) ==
    [op |-> op, command |-> command, response |-> <<>>, line |-> <<>>,
     last |-> "none", result |-> <<>>, hasResult |-> FALSE, ret |-> Bad, phase |-> "echo"]

\* the command without the shift to the wheel's 1-based positions
do_set_position_command_unshifted(new_position) == POS_SET \o FormatInt(new_position)

\* ThorlabsFilterWheel._do_set_position(new_position): "pos=%d" % (new_position + 1)
do_set_position_command(new_position) == POS_SET \o FormatInt(new_position + 1)

do_set_position(t, new_position) ==
    /\ Idle(t)
    /\ ncalls < MaxCalls
    /\ ncalls' = ncalls + 1
    /\ stack' = [stack EXCEPT ![t] = send_command \o <<F("set_ret")>>]
    /\ loc' = [loc EXCEPT ![t] = ThorLocals("set_position", do_set_position_command(new_position))]
    /\ hist' = [hist EXCEPT !.call[t] = ncalls + 1, !.seen[t] = <<>>, !.foreign[t] = FALSE,
                            !.arg[t] = new_position, !.valtag[t] = Bad]
    /\ UNCHANGED <<lockOwner, lockCount, tx, rx, dev, obj, ntimeouts>>

\* ThorlabsFilterWheel._do_get_position()
do_get_position(t) ==
    /\ Idle(t)
    /\ ncalls < MaxCalls
    /\ ncalls' = ncalls + 1
    /\ stack' = [stack EXCEPT ![t] = send_command \o <<F("get_ret")>>]
    /\ loc' = [loc EXCEPT ![t] = ThorLocals("get_position", POS_Q)]
    /\ hist' = [hist EXCEPT !.call[t] = ncalls + 1, !.seen[t] = <<>>, !.foreign[t] = FALSE,
                            !.arg[t] = Bad, !.valtag[t] = Bad]
    /\ UNCHANGED <<lockOwner, lockCount, tx, rx, dev, obj, ntimeouts>>

\* _send_command: with self._lock
sc_acquire(t) ==
    /\ At(t, "sc_acquire")
    /\ RLockFree(t)
    /\ RLockAcquire(t)
    /\ Goto(t, <<>>)
    /\ UNCHANGED <<loc, tx, rx, dev, obj, ncalls, ntimeouts, hist>>

\* _send_command: self.connection.write(command + self.eol); response = "dummy";
\* and the first pass of the echo loop calls _readline
sc_write(t) ==
    /\ At(t, "sc_write")
    /\ tx' = Append(tx, [data |-> loc[t].command \o eol, call |-> hist.call[t], p |-> hist.arg[t]])
    /\ loc' = [loc EXCEPT ![t].response = DUMMY, ![t].line = <<>>, ![t].last = "none"]
    /\ Goto(t, readline \o <<F("sc_strip")>>)
    /\ UNCHANGED <<lockOwner, lockCount, rx, dev, obj, ncalls, ntimeouts, hist>>

\* _readline: with self._lock
rl_acquire(t) ==
    /\ At(t, "rl_acquire")
    /\ RLockFree(t)
    /\ RLockAcquire(t)
    /\ Goto(t, <<>>)
    /\ UNCHANGED <<loc, tx, rx, dev, obj, ncalls, ntimeouts, hist>>

\* the kinds of line a call has read bytes of, in order, without repetition
SeenAfter(seen, b) ==
    IF b.kind = "prompt" \/ (seen # <<>> /\ seen[Len(seen)] = b.kind) THEN seen
    ELSE Append(seen, b.kind)

\* _readline: one pass of  while result[-1] not in ("\n", ""): result.append(read())
\* a byte that is there is read; with none there the read waits, and may time out
rl_read(t) ==
    /\ At(t, "rl_read")
    /\ \/ /\ rx # <<>>
          /\ LET b == Head(rx)
                 c == TextIOWrapper_translate(b.ch)
             IN /\ loc' = [loc EXCEPT ![t].line = Append(@, c), ![t].last = c]
                /\ hist' = [hist EXCEPT
                              !.seen[t] = SeenAfter(@, b),
                              !.foreign[t] = @ \/ (b.kind # "prompt" /\ b.call # hist.call[t]),
                              !.valtag[t] = IF loc[t].phase = "value" THEN b.p ELSE @]
                /\ Goto(t, IF c = "\n" THEN <<>> ELSE <<F("rl_read")>>)
          /\ rx' = Tail(rx)
          /\ UNCHANGED ntimeouts
       \/ /\ rx = <<>>
          /\ ntimeouts < MaxTimeouts
          /\ ntimeouts' = ntimeouts + 1
          /\ loc' = [loc EXCEPT ![t].last = ""]
          /\ Goto(t, <<>>)
          /\ UNCHANGED <<rx, hist>>
    /\ UNCHANGED <<lockOwner, lockCount, tx, dev, obj, ncalls>>

\* _readline: leave the with block and return "".join(result[1:])
rl_release(t) ==
    /\ At(t, "rl_release")
    /\ RLockRelease(t)
    /\ Goto(t, <<>>)
    /\ UNCHANGED <<loc, tx, rx, dev, obj, ncalls, ntimeouts, hist>>

\* _send_command: response = self._readline().strip("> \n\r"), the loop test, and
\* for a query the call of _readline for the result
sc_strip(t) ==
    /\ At(t, "sc_strip")
    /\ LET response == Strip(loc[t].line, {">", " ", "\n", "\r"})
       IN IF response \notin {loc[t].command, <<>>}
          THEN /\ loc' = [loc EXCEPT ![t].response = response, ![t].line = <<>>, ![t].last = "none"]
               /\ Goto(t, readline \o <<F("sc_strip")>>)
          ELSE IF EndsWith(loc[t].command, "?")
          THEN /\ loc' = [loc EXCEPT ![t].response = response, ![t].line = <<>>,
                                     ![t].last = "none", ![t].phase = "value"]
               /\ Goto(t, readline \o <<F("sc_result")>>)
          ELSE /\ loc' = [loc EXCEPT ![t].response = response]
               /\ Goto(t, <<>>)
    /\ UNCHANGED <<lockOwner, lockCount, tx, rx, dev, obj, ncalls, ntimeouts, hist>>

\* _send_command: result = self._readline().strip()
sc_result(t) ==
    /\ At(t, "sc_result")
    /\ loc' = [loc EXCEPT ![t].result = Strip(loc[t].line, Whitespace), ![t].hasResult = TRUE]
    /\ Goto(t, <<>>)
    /\ UNCHANGED <<lockOwner, lockCount, tx, rx, dev, obj, ncalls, ntimeouts, hist>>

\* _send_command: leave the with block and return result
sc_release(t) ==
    /\ At(t, "sc_release")
    /\ RLockRelease(t)
    /\ Goto(t, <<>>)
    /\ UNCHANGED <<loc, tx, rx, dev, obj, ncalls, ntimeouts, hist>>

\* _do_get_position: return int(result) - 1   (int() raises on a non-number)
get_ret(t) ==
    /\ At(t, "get_ret")
    /\ loc' = [loc EXCEPT ![t].ret = IF ParseInt(loc[t].result) = Bad THEN Bad
                                     ELSE ParseInt(loc[t].result) - 1]
    /\ Goto(t, <<>>)
    /\ UNCHANGED <<lockOwner, lockCount, tx, rx, dev, obj, ncalls, ntimeouts, hist>>

\* _do_set_position returns None
set_ret(t) ==
    /\ At(t, "set_ret")
    /\ Goto(t, <<>>)
    /\ UNCHANGED <<loc, lockOwner, lockCount, tx, rx, dev, obj, ncalls, ntimeouts, hist>>

\* after __init__: the position count was read from the wheel (pcount?), the
\* wire is quiet and no thread is inside the driver
InitThorlabs ==
    /\ stack = [t \in Threads |-> <<>>]
    /\ loc = [t \in Threads |-> ThorLocals("none", <<>>)]
    /\ lockOwner = NoThread
    /\ lockCount = 0
    /\ tx = <<>>
    /\ rx = <<>>
    /\ \E n \in PCounts : /\ dev = [pos |-> 1, pcount |-> n]
                          /\ obj = [n_positions |-> n]
    /\ ncalls = 0
    /\ ntimeouts = 0
    /\ hist = [call |-> [t \in Threads |-> 0], seen |-> [t \in Threads |-> <<>>],
               foreign |-> [t \in Threads |-> FALSE], arg |-> [t \in Threads |-> Bad],
               valtag |-> [t \in Threads |-> Bad], lastP |-> 0]

NextThorlabs ==
    \/ ThorDevice
    \/ \E t \in Threads :
        \/ \E p \in 0..(obj.n_positions - 1) : do_set_position(t, p)
        \/ do_get_position(t)
        \/ sc_acquire(t)
        \/ sc_write(t)
        \/ rl_acquire(t)
        \/ rl_read(t)
        \/ rl_release(t)
        \/ sc_strip(t)
        \/ sc_result(t)
        \/ sc_release(t)
        \/ get_ret(t)
        \/ set_ret(t)

SpecThorlabs == InitThorlabs /\ [][NextThorlabs]_vars


\* ---------------------------------------------------------- Thorlabs claims
\* C1: two concurrent calls of _send_command are serialized: while one call is
\* between its write and its last read it holds the lock and no other call is
\* between its own write and last read; and (the wheel answering in time) the
\* echo and value bytes a call reads are those of its own command, the echo
\* line wholly before the value line.
C1_Serialized ==
    LET \* t has written its command and has not yet left the with block
        InExchange(t) ==
            \E i \in 1..Len(stack[t]) :
                stack[t][i].op \in {"rl_acquire", "rl_read", "rl_release", "sc_strip", "sc_result"}
    IN \A t \in Threads :
           /\ InExchange(t) =>
                 /\ lockOwner = t
                 /\ \A u \in Threads \ {t} : ~InExchange(u)
           /\ ntimeouts = 0 =>
                 /\ ~hist.foreign[t]
                 /\ hist.seen[t] \in {<<>>, <<"echo">>, <<"echo", "value">>}

\* one thread has read its echo and is reading its value while the other waits
C1_Witness ==
    \E t, u \in Threads :
        /\ t # u
        /\ At(u, "sc_acquire")
        /\ At(t, "rl_read")
        /\ hist.seen[t] = <<"echo", "value">>

\* C10: _do_set_position(p) writes "pos=<p+1>", and a _do_get_position that the
\* wheel answers in time returns the logical position p of the last position
\* command the wheel took before it answered.
C10_PositionRoundTrip ==
    /\ \A i \in 1..Len(tx) :
          tx[i].p # Bad => tx[i].data = POS_SET \o FormatInt(tx[i].p + 1) \o eol
    /\ \A t \in Threads :
          (Idle(t) /\ loc[t].op = "get_position" /\ ntimeouts = 0)
              => loc[t].ret = hist.valtag[t]

\* position 11 of a 12-position wheel was set and read back
C10_Witness ==
    \E t \in Threads :
        /\ Idle(t)
        /\ loc[t].op = "get_position"
        /\ ntimeouts = 0
        /\ hist.lastP = 11
        /\ dev.pos = 12
        /\ loc[t].ret = 11


\* =========================================================================
\* CoboltLaser and CoboltLaser06DPL, lights/cobolt.py
\* =========================================================================
\* frames that carry an argument
G(op, arg) == [op |-> op, arg |-> arg]

CRLF == <<"\r", "\n">>

L_Q == <<"l", "?">>
L_1 == <<"l", "1">>
L_0 == <<"l", "0">>
P_Q == <<"p", "?">>
PA_Q == <<"p", "a", "?">>
F_Q == <<"f", "?">>
HRS_Q == <<"h", "r", "s", "?">>
COBASDR_0 == <<"@", "c", "o", "b", "a", "s", "d", "r", " ", "0">>
COBASDR_1 == <<"@", "c", "o", "b", "a", "s", "d", "r", " ", "1">>
COB_1 == <<"@", "c", "o", "b", "1">>
SMC == <<"s", "m", "c", " ">>
OK == <<"O", "K">>
CF == <<"c", "f">>

\* SerialDeviceMixin._comms_lock is a reentrant lock: free, or held by the caller
lock_comms_free(t) == lockOwner \in {NoThread, t}

\* SerialDeviceMixin.lock_comms: the decorated method runs with the lock held
lock_comms(body) == <<G("lc_acquire", <<>>)>> \o body \o <<G("lc_release", <<>>)>>

lc_acquire(t) ==
    /\ At(t, "lc_acquire")
    /\ lock_comms_free(t)
    /\ RLockAcquire(t)
    /\ Goto(t, <<>>)
    /\ UNCHANGED <<loc, tx, rx, dev, obj, ncalls, ntimeouts, hist>>

lc_release(t) ==
    /\ At(t, "lc_release")
    /\ RLockRelease(t)
    /\ Goto(t, <<>>)
    /\ UNCHANGED <<loc, tx, rx, dev, obj, ncalls, ntimeouts, hist>>

\* the laser's firmware: one reply line for every command line, in order; it
\* accepts l1 and l0 with OK also when it cannot start (canEmit) or stop
\* (canStop) emitting; it cannot start while it has a fault, which f? reports
\* and cf clears
CoboltReply(cmd, d) ==
    IF cmd = L_Q THEN (IF d.on THEN <<"1">> ELSE <<"0">>)
    ELSE IF cmd = P_Q THEN <<"0", ".", "0", "6", "0", "0">>
    ELSE IF cmd = PA_Q THEN <<"0", ".", "0", "5", "9", "8">>
    ELSE IF cmd = F_Q THEN (IF d.canEmit THEN <<"0">> ELSE <<"1">>)
    ELSE IF cmd = HRS_Q THEN <<"4", "2">>
    ELSE OK

CoboltNewState(cmd, d) ==
    IF cmd = L_1 THEN [d EXCEPT !.on = d.canEmit]
    ELSE IF cmd = L_0 THEN [d EXCEPT !.on = d.on /\ ~d.canStop]
    ELSE IF cmd = CF THEN [d EXCEPT !.canEmit = TRUE]
    ELSE IF StartsWith(cmd, SMC) THEN [d EXCEPT !.current = SubSeq(cmd, 5, Len(cmd))]
    ELSE d

CoboltDevice ==
    /\ tx # <<>>
    /\ LET m == Head(tx)
           cmd == RStrip(m.data, {"\r", "\n"})
           d2 == CoboltNewState(cmd, dev)
       IN /\ dev' = d2
          /\ rx' = Append(rx, [data |-> CoboltReply(cmd, d2) \o CRLF, call |-> m.call])
    /\ tx' = Tail(tx)
    /\ UNCHANGED <<stack, loc, lockOwner, lockCount, obj, ncalls, ntimeouts, hist>>

\* what history keeps of a wire access: who, what, and whether the lock was held
IO(t, kind) == [t |-> t, kind |-> kind, locked |-> lockOwner = t]

\* the frames of one call of send(command)
send(command) == <<G("send_write", [cmd |-> command, n |-> 0]), G("send_read", [cmd |-> command, n |-> 0])>>

\* send: self._write(command)   (SerialDeviceMixin._write appends CR LF)
send_write(t) ==
    /\ At(t, "send_write")
    /\ LET a == Top(t).arg
           id == IF a.n = 0 THEN hist.nsend + 1 ELSE loc[t].sendId
       IN /\ tx' = Append(tx, [data |-> a.cmd \o CRLF, call |-> id])
          /\ loc' = [loc EXCEPT ![t].sendId = id, ![t].sendCmd = a.cmd, ![t].sendDone = FALSE]
          /\ hist' = [hist EXCEPT !.nsend = IF a.n = 0 THEN @ + 1 ELSE @,
                                  !.io = IO(t, "write"),
                                  !.inflight = Len(tx) + Len(rx)]
    /\ Goto(t, <<>>)
    /\ UNCHANGED <<lockOwner, lockCount, rx, dev, obj, ncalls, ntimeouts>>

\* send: response = self._readline() and the test of the retry loop; n is 0 in
\* the first pass of the loop and 1 in every later one
\* (SerialDeviceMixin._readline: connection.readline().strip(); a read that
\* times out returns b"")
send_read(t) ==
    /\ At(t, "send_read")
    /\ LET a == Top(t).arg
       IN \/ /\ rx # <<>>
             /\ LET response == Strip(Head(rx).data, Whitespace)
                IN /\ loc' = [loc EXCEPT ![t].response = response,
                                         ![t].respCall = Head(rx).call,
                                         ![t].sendDone = ~EndsWith(a.cmd, "?") \/ Len(response) > 0]
                   /\ Goto(t, IF ~EndsWith(a.cmd, "?") \/ Len(response) > 0 THEN <<>>
                              ELSE <<G("send_write", [a EXCEPT !.n = 1]),
                                     G("send_read", [a EXCEPT !.n = 1])>>)
             /\ rx' = Tail(rx)
             /\ UNCHANGED ntimeouts
          \/ /\ rx = <<>>
             /\ ntimeouts < MaxTimeouts
             /\ ntimeouts' = ntimeouts + 1
             /\ loc' = [loc EXCEPT ![t].response = <<>>, ![t].respCall = 0,
                                   ![t].sendDone = ~EndsWith(a.cmd, "?")]
             /\ Goto(t, IF ~EndsWith(a.cmd, "?") THEN <<>>
                        ELSE <<G("send_write", [a EXCEPT !.n = 1]),
                               G("send_read", [a EXCEPT !.n = 1])>>)
             /\ UNCHANGED rx
    /\ hist' = [hist EXCEPT !.io = IO(t, "read")]
    /\ UNCHANGED <<lockOwner, lockCount, tx, dev, obj, ncalls>>

\* self.connection.flushInput(): what was received and not read is dropped
flushInput(t) ==
    /\ At(t, "flushInput")
    /\ rx' = <<>>
    /\ hist' = [hist EXCEPT !.io = IO(t, "flush")]
    /\ Goto(t, <<>>)
    /\ UNCHANGED <<loc, lockOwner, lockCount, tx, dev, obj, ncalls, ntimeouts>>

CoboltLocals(op) ==
    [op |-> op, response |-> <<>>, respCall |-> 0, sendId |-> 0, sendCmd |-> <<>>,
     sendDone |-> FALSE, result |-> <<>>, ret |-> "none"]

\* a caller thread enters a method of the driver
CoboltCall(t, op, frames) ==
    /\ Idle(t)
    /\ ncalls < MaxCalls
    /\ ncalls' = ncalls + 1
    /\ stack' = [stack EXCEPT ![t] = frames]
    /\ loc' = [loc EXCEPT ![t] = CoboltLocals(op)]
    /\ UNCHANGED <<lockOwner, lockCount, tx, rx, dev, obj, ntimeouts, hist>>

\* CoboltLaser.get_status
get_status_body ==
    lock_comms(send(L_Q) \o <<G("gs_append", <<>>)>> \o send(P_Q) \o <<G("gs_append", <<>>)>>
               \o send(PA_Q) \o <<G("gs_append", <<>>)>> \o send(F_Q) \o <<G("gs_append", <<>>)>>
               \o send(HRS_Q) \o <<G("gs_append", <<>>)>> \o <<G("return", "result")>>)

get_status(t) == CoboltCall(t, "get_status", get_status_body)

\* get_status: result.append(stat + " " + response.decode())
gs_append(t) ==
    /\ At(t, "gs_append")
    /\ loc' = [loc EXCEPT ![t].result = Append(@, loc[t].response)]
    /\ Goto(t, <<>>)
    /\ UNCHANGED <<lockOwner, lockCount, tx, rx, dev, obj, ncalls, ntimeouts, hist>>

\* CoboltLaser.get_is_on: response = self.send(b"l?"); return response == b"1"
get_is_on_body == lock_comms(send(L_Q) \o <<G("return", "is_on")>>)

get_is_on(t) == CoboltCall(t, "get_is_on", get_is_on_body)

\* CoboltLaser.disable: return self.send(b"l0").decode()
disable_body == lock_comms(send(L_0) \o <<G("return", "response")>>)

disable(t) == CoboltCall(t, "disable", disable_body)

\* CoboltLaser.initialize
CoboltLaser_initialize_body ==
    lock_comms(<<G("flushInput", <<>>)>> \o send(COBASDR_0) \o send(COB_1) \o <<G("return", "None")>>)

CoboltLaser_initialize(t) == CoboltCall(t, "initialize", CoboltLaser_initialize_body)

\* CoboltLaser._do_enable
do_enable_body ==
    lock_comms(send(L_1) \o get_is_on_body \o <<G("en_check", <<>>)>>)

do_enable(t) == CoboltCall(t, "_do_enable", do_enable_body)

\* _do_enable: if not self.get_is_on(): log self.get_status(); return False
\*             return True
en_check(t) ==
    /\ At(t, "en_check")
    /\ IF loc[t].ret = FALSE
       THEN Goto(t, get_status_body \o <<G("return", "False")>>)
       ELSE Goto(t, <<G("return", "True")>>)
    /\ UNCHANGED <<loc, lockOwner, lockCount, tx, rx, dev, obj, ncalls, ntimeouts, hist>>

\* the value a method returns
ReturnValue(what, l) ==
    CASE what = "is_on" -> (l.response = <<"1">>)
      [] what = "response" -> l.response
      [] what = "result" -> l.result
      [] what = "True" -> TRUE
      [] what = "False" -> FALSE
      [] OTHER -> "None"

return(t) ==
    /\ At(t, "return")
    /\ loc' = [loc EXCEPT ![t].ret = ReturnValue(Top(t).arg, loc[t])]
    /\ Goto(t, <<>>)
    /\ UNCHANGED <<lockOwner, lockCount, tx, rx, dev, obj, ncalls, ntimeouts, hist>>

\* after CoboltLaser.__init__: emission state as the device has it, the wire
\* quiet, no thread inside the driver
InitCoboltCommon ==
    /\ stack = [t \in Threads |-> <<>>]
    /\ loc = [t \in Threads |-> CoboltLocals("none")]
    /\ lockOwner = NoThread
    /\ lockCount = 0
    /\ tx = <<>>
    /\ rx = <<>>
    /\ \E on \in BOOLEAN, canEmit \in BOOLEAN, canStop \in BOOLEAN :
          dev = [on |-> on, canEmit |-> canEmit, canStop |-> canStop,
                 current |-> <<"8", "6", "5", ".", "0", "3", "8", "1">>]
    /\ ncalls = 0
    /\ ntimeouts = 0
    /\ hist = [nsend |-> 0, io |-> [t |-> NoThread, kind |-> "none", locked |-> TRUE],
               inflight |-> 0, timers |-> 0]

InitCobolt ==
    /\ InitCoboltCommon
    /\ obj = [class |-> "CoboltLaser", exposure |-> 100]

CoboltStep(t) ==
    \/ lc_acquire(t)
    \/ lc_release(t)
    \/ send_write(t)
    \/ send_read(t)
    \/ flushInput(t)
    \/ gs_append(t)
    \/ en_check(t)
    \/ return(t)

NextCobolt ==
    \/ CoboltDevice
    \/ \E t \in Threads :
        \/ get_status(t)
        \/ get_is_on(t)
        \/ disable(t)
        \/ CoboltLaser_initialize(t)
        \/ do_enable(t)
        \/ CoboltStep(t)

SpecCobolt == InitCobolt /\ [][NextCobolt]_vars


\* ----------------------------------------------------- CoboltLaser06DPL
\* powers are counted in hundredths of a mW: 0.12 mW is 12, 100 mW is 10000
STANDBY_POWER == 12
ACTIVE_POWER == 10000

\* "%.4f" % self._mW2A(mW), a * tan(b * mW + c) + d, at the powers the driver uses
\* for standby and at 0, 60 and 120 mW
mW2A_str(mW) ==
    CASE mW = 0 -> <<"8", "6", "5", ".", "0", "3", "8", "1">>
      [] mW = STANDBY_POWER -> <<"8", "7", "1", ".", "7", "3", "8", "6">>
      [] mW = ACTIVE_POWER -> <<"2", "6", "3", "0", ".", "7", "7", "0", "1">>
      [] mW = 6000 -> <<"2", "2", "5", "9", ".", "0", "4", "6", "5">>
      [] mW = 12000 -> <<"2", "7", "9", "5", ".", "2", "6", "5", "9">>

\* CoboltLaser06DPL._set_modulation_high_I(mA): return self.send(b"smc " + mA_str)
set_modulation_high_I(mA_str) == lock_comms(send(SMC \o mA_str))

\* CoboltLaser06DPL._set_power_mw(mW)
set_power_mw(mW) ==
    lock_comms(set_modulation_high_I(mW2A_str(mW)) \o <<G("spm_assign", mW)>>)

\* _set_power_mw: self.theoretical_power = mW
spm_assign(t) ==
    /\ At(t, "spm_assign")
    /\ obj' = [obj EXCEPT !.theoretical_power = Top(t).arg]
    /\ Goto(t, <<>>)
    /\ UNCHANGED <<loc, lockOwner, lockCount, tx, rx, dev, ncalls, ntimeouts, hist>>

\* CoboltLaser06DPL.set_standby(enabled)
set_standby_body(enabled) ==
    <<G("ss_assign", enabled)>>
    \o set_power_mw(IF enabled THEN STANDBY_POWER ELSE ACTIVE_POWER)
    \o <<G("return", "None")>>

set_standby(t, enabled) == CoboltCall(t, "set_standby", set_standby_body(enabled))

\* set_standby: self.standby = enabled
ss_assign(t) ==
    /\ At(t, "ss_assign")
    /\ obj' = [obj EXCEPT !.standby = Top(t).arg]
    /\ Goto(t, <<>>)
    /\ UNCHANGED <<loc, lockOwner, lockCount, tx, rx, dev, ncalls, ntimeouts, hist>>

\* a trigger that leaves standby and starts no timer
do_trigger_body_no_timer ==
    <<G("ss_assign", FALSE)>> \o set_power_mw(ACTIVE_POWER) \o <<G("return", "None")>>

\* CoboltLaser06DPL._do_trigger (the trigger type is SOFTWARE)
do_trigger_body ==
    <<G("ss_assign", FALSE)>> \o set_power_mw(ACTIVE_POWER) \o <<G("timer_start", <<>>)>>
    \o <<G("return", "None")>>

do_trigger(t) == CoboltCall(t, "_do_trigger", do_trigger_body)

\* _do_trigger: threading.Timer(self.exposure / 1000., self.set_standby, (True,)).start()
timer_start(t) ==
    /\ At(t, "timer_start")
    /\ hist' = [hist EXCEPT !.timers = @ + 1]
    /\ Goto(t, <<>>)
    /\ UNCHANGED <<loc, lockOwner, lockCount, tx, rx, dev, obj, ncalls, ntimeouts>>

\* the timer's thread runs set_standby(True) when the exposure has passed
timer_run(t) ==
    /\ Idle(t)
    /\ hist.timers > 0
    /\ hist' = [hist EXCEPT !.timers = @ - 1]
    /\ stack' = [stack EXCEPT ![t] = set_standby_body(TRUE)]
    /\ loc' = [loc EXCEPT ![t] = CoboltLocals("timer")]
    /\ UNCHANGED <<lockOwner, lockCount, tx, rx, dev, obj, ncalls, ntimeouts>>

\* CoboltLaser06DPL.initialize
CoboltLaser06DPL_initialize_body ==
    <<G("flushInput", <<>>)>> \o send(COBASDR_1) \o <<G("return", "None")>>

CoboltLaser06DPL_initialize(t) == CoboltCall(t, "initialize", CoboltLaser06DPL_initialize_body)

\* after CoboltLaser06DPL.__init__
InitCobolt06DPL ==
    /\ InitCoboltCommon
    /\ obj = [class |-> "CoboltLaser06DPL", exposure |-> 100,
              standby |-> TRUE, theoretical_power |-> 0]

NextCobolt06DPL ==
    \/ CoboltDevice
    \/ \E t \in Threads :
        \/ get_status(t)
        \/ get_is_on(t)
        \/ disable(t)
        \/ do_enable(t)
        \/ CoboltLaser06DPL_initialize(t)
        \/ \E enabled \in BOOLEAN : set_standby(t, enabled)
        \/ do_trigger(t)
        \/ timer_run(t)
        \/ timer_start(t)
        \/ ss_assign(t)
        \/ spm_assign(t)
        \/ CoboltStep(t)

SpecCobolt06DPL == InitCobolt06DPL /\ [][NextCobolt06DPL]_vars

\* =========================================================================
\* Status and OperationMode bit fields, lights/omicron.py
\* =========================================================================
HexDigits == <<"0", "1", "2", "3", "4", "5", "6", "7", "8", "9", "a", "b", "c", "d", "e", "f">>

IsHexDigit(c) == \E i \in 1..16 : HexDigits[i] = c

HexVal(c) == CHOOSE i \in 0..15 : HexDigits[i + 1] = c

\* hex(n)[2:]
RECURSIVE Hex(_)
Hex(n) == IF n < 16 THEN <<HexDigits[n + 1]>>
          ELSE Append(Hex(n \div 16), HexDigits[(n % 16) + 1])

RECURSIVE ParseHexDigits(_, _)
ParseHexDigits(s, acc) == IF s = <<>> THEN acc
                          ELSE ParseHexDigits(Tail(s), 16 * acc + HexVal(Head(s)))

\* int(code, 16); Bad when int() raises ValueError
ParseHex(s) == IF s # <<>> /\ \A i \in 1..Len(s) : IsHexDigit(s[i])
               THEN ParseHexDigits(s, 0) ELSE Bad

\* bit_enabled(code, pos): (int(code, 16) & (0x01 << pos)) != 0
bit_enabled(code, pos) == (ParseHex(code) \div (2 ^ pos)) % 2 = 1

\* True << pos, False << pos
Shl(flag, pos) == IF flag THEN 2 ^ pos ELSE 0

\* Status.__init__
Status(bytes) ==
    [bytes |-> bytes,
     error |-> bit_enabled(bytes, 0),
     on |-> bit_enabled(bytes, 1),
     preheating |-> bit_enabled(bytes, 2),
     attention_required |-> bit_enabled(bytes, 4),
     enabled_pin |-> bit_enabled(bytes, 6),
     key_switch |-> bit_enabled(bytes, 7),
     toggle_key |-> bit_enabled(bytes, 8),
     system_power |-> bit_enabled(bytes, 9),
     external_sensorconnectionected |-> bit_enabled(bytes, 13)]

\* OperationMode.__init__
OperationMode(bytes) ==
    [internal_clock_generator |-> bit_enabled(bytes, 2),
     bias_level_release |-> bit_enabled(bytes, 3),
     operating_level_release |-> bit_enabled(bytes, 4),
     digital_input_release |-> bit_enabled(bytes, 5),
     analog_input_release |-> bit_enabled(bytes, 7),
     APC_mode |-> bit_enabled(bytes, 8),
     digital_input_impedance |-> bit_enabled(bytes, 11),
     analog_input_impedance |-> bit_enabled(bytes, 12),
     usb_adhoc_mode |-> bit_enabled(bytes, 13),
     auto_startup |-> bit_enabled(bytes, 14),
     auto_powerup |-> bit_enabled(bytes, 15)]

\* OperationMode.__int__  (the flags sit at distinct bits, so | is +)
OperationMode_int(self) ==
    Shl(self.internal_clock_generator, 2)
    + Shl(self.bias_level_release, 3)
    + Shl(self.operating_level_release, 4)
    + Shl(self.digital_input_release, 5)
    + Shl(self.analog_input_release, 7)
    + Shl(self.APC_mode, 8)
    + Shl(self.digital_input_impedance, 10)
    + Shl(self.analog_input_impedance, 12)
    + Shl(self.usb_adhoc_mode, 13)
    + Shl(self.auto_startup, 14)
    + Shl(self.auto_powerup, 15)

\* the bit positions OperationMode defines
OperationModeBits == {2, 3, 4, 5, 7, 8, 11, 12, 13, 14, 15}

RECURSIVE BitSum(_)
BitSum(S) == IF S = {} THEN 0
             ELSE LET b == CHOOSE x \in S : TRUE IN (2 ^ b) + BitSum(S \ {b})

\* ---- OperationMode decoded from, and encoded back to, its wire form
\* x is a mode word the device can report; the driver decodes its hexadecimal
\* text and later encodes the decoded flags again
InitOperationMode ==
    /\ stack = <<>>
    /\ loc = <<>>
    /\ lockOwner = NoThread
    /\ lockCount = 0
    /\ tx = <<>>
    /\ rx = <<>>
    /\ \E S \in SUBSET OperationModeBits : dev = [x |-> BitSum(S)]
    /\ obj = [stage |-> "wire", operation_mode |-> OperationMode(<<"0">>), int |-> 0]
    /\ ncalls = 0
    /\ ntimeouts = 0
    /\ hist = <<>>

\* OperationMode(code) for the text the device sent
OperationMode_decode ==
    /\ obj.stage = "wire"
    /\ obj' = [obj EXCEPT !.stage = "decoded", !.operation_mode = OperationMode(Hex(dev.x))]
    /\ UNCHANGED <<stack, loc, lockOwner, lockCount, tx, rx, dev, ncalls, ntimeouts, hist>>

\* int(operation_mode)
OperationMode_encode ==
    /\ obj.stage = "decoded"
    /\ obj' = [obj EXCEPT !.stage = "encoded", !.int = OperationMode_int(obj.operation_mode)]
    /\ UNCHANGED <<stack, loc, lockOwner, lockCount, tx, rx, dev, ncalls, ntimeouts, hist>>

NextOperationMode == OperationMode_decode \/ OperationMode_encode

SpecOperationMode == InitOperationMode /\ [][NextOperationMode]_vars

\* =========================================================================
\* OmicronLaser, lights/omicron.py
\* =========================================================================
CR == <<"\r">>

GAS == <<"G", "A", "S">>
GOM == <<"G", "O", "M">>
MDP == <<"M", "D", "P">>
LOf == <<"L", "O", "f">>
SOM == <<"S", "O", "M">>
LOn == <<"L", "O", "n">>
GLF == <<"G", "L", "F">>
RsC == <<"R", "s", "C">>
SLP == <<"S", "L", "P">>
ACK == <<">">>

\* s[i:j] of Python, 0 <= i
Slice(s, i, j) == SubSeq(s, i + 1, IF j < Len(s) THEN j ELSE Len(s))

\* s.split("|")
RECURSIVE Split(_, _, _)
Split(s, cur, acc) ==
    IF s = <<>> THEN Append(acc, cur)
    ELSE IF Head(s) = "|" THEN Split(Tail(s), <<>>, Append(acc, cur))
    ELSE Split(Tail(s), Append(cur, Head(s)), acc)

split(s) == Split(s, <<>>, <<>>)

\* mode words a laser can have been left in
FactoryModes == {41216, 2084}

\* the status word and the diode power the laser answers a query with
DEVICE_STATUS == 706
DEVICE_POWER == 12

\* the power level the laser holds when the driver connects (0xFFF, full power)
DEVICE_LEVEL == 4095

\* the unsolicited frames the laser may push in ad-hoc mode
AdhocFrames ==
    {<<"$", "G", "A", "S">> \o Hex(707) \o CR, <<"$", "G", "O", "M">> \o Hex(2084) \o CR, <<"$", "T", "P", "P">> \o FormatInt(7) \o CR,
     <<"$", "M", "D", "P">> \o FormatInt(9) \o CR, <<"$", "G", "L", "P">> \o <<"f", "f", "f">> \o CR}

\* the laser pushes a status frame; nobody asked for it.  It does so between
\* receiving a command and answering it: a frame pushed at any other time is
\* read by the driver at this same point of its next exchange
OmicronPush ==
    /\ hist.nframes < MaxFrames
    /\ tx # <<>>
    /\ \E f \in AdhocFrames :
          /\ rx' = Append(rx, [data |-> f, kind |-> "adhoc", call |-> 0])
          /\ hist' = [hist EXCEPT !.nframes = @ + 1,
                                  !.lastStatus = IF Slice(f, 0, 4) = <<"$">> \o GAS
                                                 THEN Slice(f, 4, Len(f) - 1) ELSE @]
    /\ UNCHANGED <<stack, loc, lockOwner, lockCount, tx, dev, obj, ncalls, ntimeouts>>

\* the laser is in its error state (bit 0 of the status it reports)
OmicronError(d) == d.status % 2 = 1

\* the failure the laser latches while it is in its error state: the external
\* interlock (bit 9) with the error state (bit 0)
LATCHED_INTERLOCK == 513

\* the laser's firmware: "?" command payload "|" CR is answered by "!" command
\* payload CR, one answer for every command, in order; the payload of a
\* command that sets something is ">", or "x" when the laser refuses: it does
\* not switch on while it is in its error state; RsC is answered without
\* payload
OmicronPayload(cmd, d) ==
    IF cmd = GAS THEN Hex(d.status)
    ELSE IF cmd = GOM THEN Hex(d.opmode)
    ELSE IF cmd = MDP THEN FormatInt(d.power)
    ELSE IF cmd = GLF THEN Hex(IF OmicronError(d) THEN LATCHED_INTERLOCK ELSE 0)
    ELSE IF cmd = LOn /\ OmicronError(d) THEN <<"x">>
    ELSE IF cmd = RsC THEN <<>>
    ELSE ACK

OmicronNewState(cmd, arg, d) ==
    IF cmd = SOM /\ ParseHex(arg) # Bad THEN [d EXCEPT !.opmode = ParseHex(arg)]
    ELSE IF cmd = SLP /\ ParseHex(arg) # Bad THEN [d EXCEPT !.level = ParseHex(arg)]
    ELSE IF cmd = LOf THEN [d EXCEPT !.on = FALSE]
    ELSE IF cmd = LOn THEN [d EXCEPT !.on = ~OmicronError(d)]
    ELSE IF cmd = RsC THEN [d EXCEPT !.status = @ - (@ % 2), !.on = FALSE]
    ELSE d

\* the line "\x00$RsC>\r" the laser sends when a reset is done
RESET_DONE == <<"NUL", "$", "R", "s", "C", ">">> \o CR

\* what the laser sends after its answer
OmicronAfter(cmd) ==
    IF cmd = RsC THEN <<[data |-> RESET_DONE, kind |-> "adhoc", call |-> 0]>> ELSE <<>>

OmicronDevice ==
    /\ tx # <<>>
    /\ LET m == Head(tx)
           line == Slice(m.data, 1, Len(m.data) - 1)
           cmd == Slice(line, 0, 3)
           arg == split(Slice(line, 3, Len(line)))[1]
           d2 == OmicronNewState(cmd, arg, dev)
       IN \/ /\ dev' = d2
             /\ rx' = Append(rx, [data |-> <<"!">> \o cmd \o OmicronPayload(cmd, d2) \o CR,
                                  kind |-> "reply", call |-> m.call])
                      \o OmicronAfter(cmd)
             /\ hist' = [hist EXCEPT !.lastStatus = IF cmd = GAS THEN Hex(d2.status) ELSE @]
          \/ \* the laser did not understand the line it received
             /\ hist.nbad < MaxBad
             /\ hist' = [hist EXCEPT !.nbad = @ + 1]
             /\ rx' = Append(rx, [data |-> <<"!", "U", "K">> \o CR, kind |-> "reply", call |-> m.call])
             /\ UNCHANGED dev
    /\ tx' = Tail(tx)
    /\ UNCHANGED <<stack, loc, lockOwner, lockCount, obj, ncalls, ntimeouts>>

\* float(s) for the digit strings the laser sends
float(s) == ParseInt(s)

\* decoded[:4] and decoded[4:].split("|")[0] of _process_adhoc
adhoc_command(raw) == Slice(Slice(raw, 0, Len(raw) - 1), 0, 4)

adhoc_content0(raw) == split(Slice(Slice(raw, 0, Len(raw) - 1), 4, Len(raw)))[1]

\* _process_adhoc with the tags of status and operation mode exchanged
process_adhoc_swapped(self, raw) ==
    IF adhoc_command(raw) = <<"$", "G", "O", "M">> THEN [self EXCEPT !.status = <<Status(adhoc_content0(raw))>>]
    ELSE IF adhoc_command(raw) = <<"$", "G", "A", "S">>
         THEN [self EXCEPT !.operation_mode = OperationMode(adhoc_content0(raw))]
    ELSE self

\* OmicronLaser._process_adhoc(raw): the object after the frame is applied
process_adhoc(self, raw) ==
    IF adhoc_command(raw) = <<"$", "G", "A", "S">> THEN [self EXCEPT !.status = <<Status(adhoc_content0(raw))>>]
    ELSE IF adhoc_command(raw) = <<"$", "G", "O", "M">>
         THEN [self EXCEPT !.operation_mode = OperationMode(adhoc_content0(raw))]
    ELSE IF adhoc_command(raw) = <<"$", "T", "P", "P">>
         THEN [self EXCEPT !.temporal_power = <<float(adhoc_content0(raw))>>]
    ELSE IF adhoc_command(raw) = <<"$", "M", "D", "P">>
         THEN [self EXCEPT !.laser_power = <<float(adhoc_content0(raw))>>]
    ELSE self

\* a test that takes no line for an ad-hoc message
is_adhoc_never(raw) == FALSE

\* _read: raw.decode()[0] == "$"
is_adhoc(raw) == Slice(raw, 0, 1) = <<"$">>

\* a test that takes every answer for the expected one
echo_matches_always(raw, q) == TRUE

\* _query: raw.decode()[1:4] == q.decode()[:3]
echo_matches(raw, q) == Slice(raw, 1, 4) = Slice(q, 0, 3)

\* the frames of one call of _query(q)
query(q, n) == <<G("q_write", [n |-> n, q |-> q]), G("q_read", [n |-> n, q |-> q])>>

\* the reply lines received and not yet read
UnreadReplies == Len(SelectSeq(rx, LAMBDA e : e.kind = "reply"))

\* _query: self.connection.write(b"?" + q + b"\r")
q_write(t) ==
    /\ At(t, "q_write")
    /\ LET a == Top(t).arg
           id == IF a.n = 0 THEN hist.nsend + 1 ELSE loc[t].sendId
       IN /\ tx' = Append(tx, [data |-> <<"?">> \o a.q \o CR, call |-> id])
          /\ loc' = [loc EXCEPT ![t].sendId = id, ![t].sendCmd = a.q, ![t].sendDone = FALSE,
                                ![t].attempts = a.n + 1,
                                ![t].frames = IF a.n = 0 THEN 0 ELSE @,
                                ![t].unexpected = <<>>]
          /\ hist' = [hist EXCEPT !.nsend = IF a.n = 0 THEN @ + 1 ELSE @,
                                  !.io = IO(t, "write"),
                                  !.inflight = Len(tx) + UnreadReplies]
    /\ Goto(t, <<>>)
    /\ UNCHANGED <<lockOwner, lockCount, rx, dev, obj, ncalls, ntimeouts>>

\* _query: raw = self._read() and the test of the answer.  _read reads one line
\* (read_until blocks until a line is there); an ad-hoc line is applied to the
\* object and _read reads again; any other line is returned to _query, which
\* returns it when it carries the command's echo and calls itself otherwise
q_read(t) ==
    /\ At(t, "q_read")
    /\ rx # <<>>
    /\ LET a == Top(t).arg
           raw == Head(rx).data
       IN IF is_adhoc(raw)
          THEN /\ obj' = process_adhoc(obj, raw)
               /\ loc' = [loc EXCEPT ![t].frames = @ + 1]
               /\ UNCHANGED stack
          ELSE IF echo_matches(raw, a.q)
          THEN /\ loc' = [loc EXCEPT ![t].response = raw, ![t].respCall = Head(rx).call,
                                     ![t].respKind = Head(rx).kind, ![t].sendDone = TRUE]
               /\ Goto(t, <<>>)
               /\ UNCHANGED obj
          ELSE /\ loc' = [loc EXCEPT ![t].unexpected = raw]
               /\ Goto(t, query(a.q, a.n + 1))
               /\ UNCHANGED obj
    /\ rx' = Tail(rx)
    /\ hist' = [hist EXCEPT !.io = IO(t, "read"), !.nread = @ + 1]
    /\ UNCHANGED <<lockOwner, lockCount, tx, dev, ncalls, ntimeouts>>

\* OmicronLaser._ask_bytes(question): raw = self._query(question + b"|"); return raw[4:-1]
ask_bytes(question) ==
    lock_comms(query(question \o <<"|">>, 0) \o <<G("ask_bytes_ret", <<>>)>>)

ask_bytes_ret(t) ==
    /\ At(t, "ask_bytes_ret")
    /\ loc' = [loc EXCEPT ![t].value = Slice(loc[t].response, 4, Len(loc[t].response) - 1)]
    /\ Goto(t, <<>>)
    /\ UNCHANGED <<lockOwner, lockCount, tx, rx, dev, obj, ncalls, ntimeouts, hist>>

\* OmicronLaser._ask(question): return raw[:-1].decode("Latin1")[4:].split("|")
ask(question) ==
    lock_comms(query(question \o <<"|">>, 0) \o <<G("ask_ret", <<>>)>>)

ask_ret(t) ==
    /\ At(t, "ask_ret")
    /\ loc' = [loc EXCEPT ![t].value =
                  split(Slice(Slice(loc[t].response, 0, Len(loc[t].response) - 1), 4,
                              Len(loc[t].response)))]
    /\ Goto(t, <<>>)
    /\ UNCHANGED <<lockOwner, lockCount, tx, rx, dev, obj, ncalls, ntimeouts, hist>>

OmLocals(op) ==
    [op |-> op, response |-> <<>>, respCall |-> 0, respKind |-> "none", sendId |-> 0,
     sendCmd |-> <<>>, sendDone |-> FALSE, attempts |-> 0, frames |-> 0,
     unexpected |-> <<>>, value |-> <<>>, ret |-> "none"]

\* a caller thread enters a method of the driver
OmicronCall(t, op, frames) ==
    /\ Idle(t)
    /\ ncalls < MaxCalls
    /\ ncalls' = ncalls + 1
    /\ stack' = [stack EXCEPT ![t] = frames]
    /\ loc' = [loc EXCEPT ![t] = OmLocals(op)]
    /\ UNCHANGED <<lockOwner, lockCount, tx, rx, dev, obj, ntimeouts, hist>>

\* OmicronLaser.get_status
om_get_status_body == ask_bytes(GAS) \o <<G("status_assign", <<>>)>>

om_get_status(t) == OmicronCall(t, "get_status", om_get_status_body)

\* get_status: self.status = Status(code); return self.status
status_assign(t) ==
    /\ At(t, "status_assign")
    /\ obj' = [obj EXCEPT !.status = <<Status(loc[t].value)>>]
    /\ loc' = [loc EXCEPT ![t].ret = Status(loc[t].value)]
    /\ Goto(t, <<>>)
    /\ UNCHANGED <<lockOwner, lockCount, tx, rx, dev, ncalls, ntimeouts, hist>>

\* OmicronLaser.get_operation_mode
get_operation_mode_body == ask_bytes(GOM) \o <<G("operation_mode_assign", <<>>)>>

get_operation_mode(t) == OmicronCall(t, "get_operation_mode", get_operation_mode_body)

\* get_operation_mode: self.operation_mode = OperationMode(code)
operation_mode_assign(t) ==
    /\ At(t, "operation_mode_assign")
    /\ obj' = [obj EXCEPT !.operation_mode = OperationMode(loc[t].value)]
    /\ Goto(t, <<>>)
    /\ UNCHANGED <<loc, lockOwner, lockCount, tx, rx, dev, ncalls, ntimeouts, hist>>

\* OmicronLaser.measure_diode_power
measure_diode_power_body == ask(MDP) \o <<G("laser_power_assign", <<>>)>>

measure_diode_power(t) == OmicronCall(t, "measure_diode_power", measure_diode_power_body)

\* measure_diode_power: self._laser_power = float(response); return self._laser_power
laser_power_assign(t) ==
    /\ At(t, "laser_power_assign")
    /\ obj' = [obj EXCEPT !.laser_power = <<float(loc[t].value[1])>>]
    /\ loc' = [loc EXCEPT ![t].ret = float(loc[t].value[1])]
    /\ Goto(t, <<>>)
    /\ UNCHANGED <<lockOwner, lockCount, tx, rx, dev, ncalls, ntimeouts, hist>>

\* OmicronLaser.laser_off: response = self._ask(b"LOf")[0] == ">"
laser_off_body == ask(LOf) \o <<G("laser_off_ret", <<>>)>>

laser_off_ret(t) ==
    /\ At(t, "laser_off_ret")
    /\ loc' = [loc EXCEPT ![t].ret = (loc[t].value[1] = ACK)]
    /\ Goto(t, <<>>)
    /\ UNCHANGED <<lockOwner, lockCount, tx, rx, dev, obj, ncalls, ntimeouts, hist>>

\* self.connection.flushInput() of _do_shutdown and initialize
om_flushInput(t) ==
    /\ At(t, "om_flushInput")
    /\ rx' = <<>>
    /\ hist' = [hist EXCEPT !.io = IO(t, "flush")]
    /\ Goto(t, <<>>)
    /\ UNCHANGED <<loc, lockOwner, lockCount, tx, dev, obj, ncalls, ntimeouts>>

\* OmicronLaser._do_shutdown
om_do_shutdown_body == laser_off_body \o <<G("om_flushInput", <<>>)>>

om_do_shutdown(t) == OmicronCall(t, "_do_shutdown", om_do_shutdown_body)

\* initialize: the flags it sets
initialize_flags(mode) ==
    [mode EXCEPT !.auto_powerup = TRUE,
                 !.auto_startup = FALSE,
                 !.usb_adhoc_mode = TRUE,
                 !.APC_mode = TRUE,
                 !.analog_input_release = FALSE,
                 !.bias_level_release = FALSE,
                 !.operating_level_release = FALSE]

\* after OmicronLaser.__init__: serial_for_url has opened the port (no statement
\* of the driver closes it), the laser was switched off, initialize() has
\* written the operation mode and measured the diode power; no status was
\* read yet and no ad-hoc frame was received
InitOmicron ==
    /\ stack = [t \in Threads |-> <<>>]
    /\ loc = [t \in Threads |-> OmLocals("none")]
    /\ lockOwner = NoThread
    /\ lockCount = 0
    /\ tx = <<>>
    /\ rx = <<>>
    /\ \E m \in FactoryModes :
          LET mode == initialize_flags(OperationMode(Hex(m)))
          IN /\ dev = [opmode |-> OperationMode_int(mode), status |-> DEVICE_STATUS,
                       power |-> DEVICE_POWER, on |-> FALSE, level |-> DEVICE_LEVEL]
             /\ obj = [status |-> <<>>, operation_mode |-> mode, temporal_power |-> <<>>,
                       laser_power |-> <<float(FormatInt(DEVICE_POWER))>>, standby |-> TRUE,
                       is_on |-> FALSE, exposure |-> 100, connection_is_open |-> TRUE,
                       latched_failure |-> <<>>, set_point |-> 0]
    /\ ncalls = 0
    /\ ntimeouts = 0
    /\ hist = [nsend |-> 0, io |-> [t |-> NoThread, kind |-> "none", locked |-> TRUE],
               inflight |-> 0, timers |-> 0, nframes |-> 0, nbad |-> 0, nread |-> 0,
               lastStatus |-> <<>>]

\* callers that poll the laser and shut it down
NextOmicron ==
    \/ OmicronDevice
    \/ OmicronPush
    \/ \E t \in Threads :
        \/ om_get_status(t)
        \/ get_operation_mode(t)
        \/ measure_diode_power(t)
        \/ om_do_shutdown(t)
        \/ lc_acquire(t)
        \/ lc_release(t)
        \/ q_write(t)
        \/ q_read(t)
        \/ ask_bytes_ret(t)
        \/ ask_ret(t)
        \/ status_assign(t)
        \/ operation_mode_assign(t)
        \/ laser_power_assign(t)
        \/ laser_off_ret(t)
        \/ om_flushInput(t)

SpecOmicron == InitOmicron /\ [][NextOmicron]_vars

\* ------------------------------------------------------------ Cobolt claims
\* C7: the value a query exchange returns is the reply the device produced for
\* a transmission of that same call of send, never one it produced for a
\* transmission of an earlier call.
C7_ReplyAttribution ==
    \A t \in Threads :
        (loc[t].sendDone /\ EndsWith(loc[t].sendCmd, "?"))
            => loc[t].respCall = loc[t].sendId

\* C8: a command is written only when no earlier command is still waiting to
\* be processed by the device and no reply is waiting to be read.
C8_OneInFlight == hist.inflight = 0


\* C2: every write to, read from or flush of the serial connection is made by
\* a thread that holds the comms lock at that moment.
C2_WireAccessLocked == hist.io.locked


\* C9: for every mode word x whose set bits are among the defined positions,
\* int(OperationMode(hex(x))) = x.
C9_OperationModeRoundTrip == obj.stage = "encoded" => obj.int = dev.x


\* ----------------------------------------------------------- Omicron claims
\* C3: every write, read_until and flushInput on the connection is made by a
\* thread that holds the comms lock at that moment.
C3_ConnectionAccessLocked == hist.io.kind # "none" => hist.io.locked

\* C4: whatever ad-hoc frames precede it, the line _query returns does not
\* begin with "$": it is the reply the laser gave to this call's command, the
\* value the laser holds and not one a frame carried.
C4_AdhocInvisible ==
    \A t \in Threads :
        loc[t].sendDone =>
            /\ Slice(loc[t].response, 0, 1) # <<"$">>
            /\ loc[t].respKind = "reply"
            /\ loc[t].respCall = loc[t].sendId
            /\ LET cmd == Slice(loc[t].sendCmd, 0, 3)
               IN loc[t].response = <<"!">> \o cmd \o OmicronPayload(cmd, dev) \o CR

\* a query returned after two ad-hoc frames were read in front of its reply
C4_Witness == \E t \in Threads : loc[t].sendDone /\ loc[t].frames >= 2

\* C5: reading a frame tagged $GAS, $GOM, $TPP or $MDP sets the cached field of
\* that tag from the frame and leaves every other field as it was; reading any
\* other line changes no field; and no step but a read or the assignment that
\* ends get_status, get_operation_mode or measure_diode_power changes a field.
C5_AdhocFrameEffect ==
    [][LET \* the cached fields after the line raw, as the protocol has it
           AfterFrame(self, raw) ==
               LET tag == Slice(raw, 0, 4)
                   content == split(Slice(raw, 4, Len(raw) - 1))[1]
               IN CASE tag = <<"$", "G", "A", "S">> -> [self EXCEPT !.status = <<Status(content)>>]
                    [] tag = <<"$", "G", "O", "M">> -> [self EXCEPT !.operation_mode = OperationMode(content)]
                    [] tag = <<"$", "T", "P", "P">> -> [self EXCEPT !.temporal_power = <<float(content)>>]
                    [] tag = <<"$", "M", "D", "P">> -> [self EXCEPT !.laser_power = <<float(content)>>]
                    [] OTHER -> self
       IN IF hist.nread' # hist.nread
          THEN obj' = AfterFrame(obj, Head(rx).data)
          ELSE obj' # obj =>
                 \E t \in Threads :
                     /\ stack'[t] # stack[t]
                     /\ \/ At(t, "status_assign")
                        \/ At(t, "operation_mode_assign")
                        \/ At(t, "laser_power_assign")]_vars

\* a $GAS frame and a $TPP frame have been applied to the cache
C5_Witness ==
    /\ obj.status = <<Status(Hex(707))>>
    /\ obj.temporal_power = <<7>>
    /\ hist.nread >= 2

\* C6: the line _query returns carries the first three characters of q after
\* its first character; a line that is no ad-hoc frame and carries another
\* echo is not returned: the same command is written again.
C6_EchoChecked ==
    \A t \in Threads :
        /\ loc[t].sendDone => Slice(loc[t].response, 1, 4) = Slice(loc[t].sendCmd, 0, 3)
        /\ loc[t].unexpected # <<>> =>
              /\ ~loc[t].sendDone
              /\ At(t, "q_write")
              /\ Top(t).arg.q = loc[t].sendCmd

\* a query was written a second time after an unexpected answer, and returned
C6_Witness == \E t \in Threads : loc[t].sendDone /\ loc[t].attempts = 2


\* =========================================================================
\* ThorlabsFilterWheelController, filterwheels/thorlabs.py
\* =========================================================================
\* physical positions are counted in quarters of a unit: 0.5 is 2
position_table == [k \in 1..6 |-> 2 * (k - 1)]

\* System.Decimal(x), the type of the values the Kinesis channel takes and gives
Decimal(x) == [decimal |-> x]

ControllerLocals(op, arg) == [op |-> op, arg |-> arg, ret |-> "none", raised |-> "none"]

\* ThorlabsFilterWheelController._do_set_position(position):
\*   self.channel.MoveToPosition(Decimal(self.position_table[position]))
\* a dict raises KeyError for a key it does not hold
Controller_do_set_position(t, position) ==
    /\ ncalls < MaxCalls
    /\ ncalls' = ncalls + 1
    /\ IF position \in DOMAIN position_table
       THEN /\ dev' = [dev EXCEPT !.target = Decimal(position_table[position])]
            /\ loc' = [loc EXCEPT ![t] = ControllerLocals("set_position", position)]
            /\ hist' = [lastP |-> position, moved |-> TRUE]
       ELSE /\ loc' = [loc EXCEPT ![t] = [ControllerLocals("set_position", position)
                                            EXCEPT !.raised = "KeyError"]]
            /\ hist' = [lastP |-> position, moved |-> FALSE]
            /\ UNCHANGED dev
    /\ UNCHANGED <<stack, lockOwner, lockCount, tx, rx, obj, ntimeouts>>

\* ThorlabsFilterWheelController._do_get_position(): return self.channel.Position
Controller_do_get_position(t) ==
    /\ ncalls < MaxCalls
    /\ ncalls' = ncalls + 1
    /\ loc' = [loc EXCEPT ![t] = [ControllerLocals("get_position", Bad)
                                    EXCEPT !.ret = dev.Position, !.arg = dev.Position.decimal]]
    /\ UNCHANGED <<stack, lockOwner, lockCount, tx, rx, dev, obj, ntimeouts, hist>>

\* the stage turns towards the position it was last told to move to
ControllerMove ==
    /\ dev.Position # dev.target
    /\ dev' = [dev EXCEPT !.Position =
                  Decimal(IF @.decimal < dev.target.decimal THEN @.decimal + 1 ELSE @.decimal - 1)]
    /\ UNCHANGED <<stack, loc, lockOwner, lockCount, tx, rx, obj, ncalls, ntimeouts, hist>>

\* after ThorlabsFilterWheelController.__init__: the stage rests where it was
\* left, on a slot of the table or between two
InitController ==
    /\ stack = [t \in Threads |-> <<>>]
    /\ loc = [t \in Threads |-> ControllerLocals("none", Bad)]
    /\ lockOwner = NoThread
    /\ lockCount = 0
    /\ tx = <<>>
    /\ rx = <<>>
    /\ \E x \in 0..10 : dev = [Position |-> Decimal(x), target |-> Decimal(x)]
    /\ obj = [positions |-> 6]
    /\ ncalls = 0
    /\ ntimeouts = 0
    /\ hist = [lastP |-> Bad, moved |-> FALSE]

NextController ==
    \/ ControllerMove
    \/ \E t \in Threads :
        \/ \E position \in 0..(obj.positions - 1) : Controller_do_set_position(t, position)
        \/ Controller_do_get_position(t)

SpecController == InitController /\ [][NextController]_vars

\* -------------------------------------------------------- Controller claims
\* C11: for every slot index i in [0, 6), _do_set_position(i) finds an entry
\* for i in the table and moves to it, and a _do_get_position() made once the
\* stage has arrived returns i.
C11_PositionTableRoundTrip ==
    \A t \in Threads :
        /\ loc[t].op = "set_position" => loc[t].raised = "none"
        /\ (/\ loc[t].op = "get_position"
            /\ hist.moved
            /\ dev.Position = dev.target
            /\ loc[t].ret = dev.Position)
              => loc[t].ret = hist.lastP

\* C12: _do_get_position returns the index of the table entry whose value the
\* stage reports, and reports a decode error when the stage is on no entry;
\* it never returns the raw physical value.  (The index is accepted counted
\* from 0 or from 1, and as a number of any type: the value returned is
\* compared as a Decimal.)
C12_ReverseLookup ==
    \A t \in Threads :
        loc[t].op = "get_position" =>
            IF \E k \in DOMAIN position_table : position_table[k] = loc[t].arg
            THEN \E k \in DOMAIN position_table :
                    /\ position_table[k] = loc[t].arg
                    /\ loc[t].ret \in {Decimal(k), Decimal(k - 1)}
            ELSE loc[t].raised = "DecodeError"

\* ------------------------------------------- ThorlabsFilterWheel, continued
\* C13: when the echo loop of _send_command ends on an empty line, the call
\* reads no further line and takes no value from the wire: a call reads a
\* value line only after it has read the echo of its command.
C13_EmptyEchoAborts ==
    \A t \in Threads :
        (loc[t].phase = "value" \/ loc[t].hasResult) => loc[t].response = loc[t].command

\* C14: a query whose echo was read reads exactly one more line and returns it
\* stripped; a command that is no query reads nothing after its echo loop and
\* returns None.
C14_ResultLine ==
    \A t \in Threads :
        LET isQuery == loc[t].command # <<>> /\ loc[t].command[Len(loc[t].command)] = "?"
            reading == \E i \in 1..Len(stack[t]) :
                          stack[t][i].op \in {"rl_acquire", "rl_read", "rl_release", "sc_strip", "sc_result"}
            written == \A i \in 1..Len(stack[t]) : stack[t][i].op \notin {"sc_acquire", "sc_write"}
            echoed == loc[t].op # "none" /\ written /\ loc[t].response = loc[t].command
        IN /\ (echoed /\ isQuery /\ ~reading) =>
                 /\ loc[t].hasResult
                 /\ loc[t].result = Strip(loc[t].line, Whitespace)
                 /\ \A i \in 1..(Len(loc[t].line) - 1) : loc[t].line[i] # "\n"
           /\ (echoed /\ isQuery /\ reading) => (loc[t].phase = "value" /\ ~loc[t].hasResult)
           /\ (loc[t].op # "none" /\ ~isQuery) =>
                 /\ ~loc[t].hasResult
                 /\ loc[t].result = <<>>
                 /\ loc[t].phase = "echo"
                 /\ (echoed /\ loc[t].last = "none") => ~reading

\* one call set a position and returned None with the prompt left on the wire;
\* a isQuery has read its echo and then one line, the position
C14_Witness ==
    \E t, u \in Threads :
        /\ Idle(u) /\ loc[u].op = "set_position"
        /\ At(t, "sc_release") /\ loc[t].command = POS_Q
        /\ loc[t].response = POS_Q
        /\ loc[t].hasResult /\ loc[t].result = <<"3">>
        /\ rx # <<>>

\* ------------------------------------- CoboltLaser with a laser that is busy
\* the laser answers a query with an empty line
CoboltDeviceEmpty ==
    /\ tx # <<>>
    /\ EndsWith(RStrip(Head(tx).data, {"\r", "\n"}), "?")
    /\ rx' = Append(rx, [data |-> CRLF, call |-> Head(tx).call])
    /\ tx' = Tail(tx)
    /\ UNCHANGED <<stack, loc, lockOwner, lockCount, dev, obj, ncalls, ntimeouts, hist>>

NextCoboltBusy ==
    \/ CoboltDevice
    \/ CoboltDeviceEmpty
    \/ \E t \in Threads :
        \/ get_is_on(t)
        \/ disable(t)
        \/ lc_acquire(t)
        \/ lc_release(t)
        \/ send_write(t)
        \/ send_read(t)
        \/ return(t)

\* every thread inside the driver keeps running and the laser answers every
\* line it receives (a step of the laser shortens tx, a step of a thread
\* changes the length of its stack)
SpecCoboltBusy ==
    /\ InitCobolt
    /\ [][NextCoboltBusy]_vars
    /\ WF_(Len(tx))(CoboltDevice \/ CoboltDeviceEmpty)
    /\ \A t \in Threads :
          WF_(Len(stack[t]))(lc_acquire(t) \/ lc_release(t) \/ send_write(t)
                                \/ send_read(t) \/ return(t))

\* C15: send retries a bounded number of times and then ends, whatever the
\* laser answers: every operation that was started returns.
C15_SendTerminates == <>[](\A t \in Threads : Idle(t))

\* --------------------------------------------- OmicronLaser, running threads
\* one statement of thread t inside the driver
OmicronThreadStep(t) ==
    \/ lc_acquire(t)
    \/ lc_release(t)
    \/ q_write(t)
    \/ q_read(t)
    \/ ask_bytes_ret(t)
    \/ ask_ret(t)
    \/ status_assign(t)
    \/ operation_mode_assign(t)
    \/ laser_power_assign(t)
    \/ laser_off_ret(t)
    \/ om_flushInput(t)

\* every thread inside the driver keeps running (a step of a thread changes
\* the length of its stack or takes a line from rx); the laser answers or not
SpecOmicronRunning ==
    /\ InitOmicron
    /\ [][NextOmicron]_vars
    /\ \A t \in Threads : WF_(<<Len(stack[t]), Len(rx)>>)(OmicronThreadStep(t))

\* C16: _query ends for every behaviour of the laser: a thread that has
\* entered _query leaves it, with the answer or with a failure.
C16_QueryTerminates ==
    \A t \in Threads : <>[](~At(t, "q_write") /\ ~At(t, "q_read"))

\* C17: with a laser that answers every command, every operation that was
\* started completes and releases the comms lock: a thread that waits in
\* read_until for the reply to its command (the read has no timeout) always
\* has its command or a line to read on the wire.
C17_NoReadInVain ==
    \A t \in Threads : At(t, "q_read") => (tx # <<>> \/ rx # <<>>)

\* C18: disable issues l0 and checks that emission has stopped: when the laser
\* accepted l0 and still emits, the value disable returns reports the failure.
C18_DisableReportsRefusal ==
    \A t \in Threads :
        (Idle(t) /\ loc[t].op = "disable" /\ loc[t].response = OK /\ dev.on)
            => loc[t].ret # OK

\* =========================================================================
\* The software trigger of CoboltLaser06DPL and of OmicronLaser
\* =========================================================================
\* OmicronLaser._set(what, value): return self._ask(what + value)
set(what, value) == lock_comms(ask(what \o value))

\* a Python list is never equal to a str
list_eq_str(list, str) == FALSE

\* OmicronLaser.set_operation_mode
set_operation_mode_body == <<G("set_operation_mode", <<>>)>>

\* set_operation_mode: mode = hex(int(self.operation_mode))[2:]
\*                     response = self._set(b"SOM", mode.encode("Latin1"))
set_operation_mode(t) ==
    /\ At(t, "set_operation_mode")
    /\ Goto(t, set(SOM, Hex(OperationMode_int(obj.operation_mode)))
               \o <<G("set_operation_mode_ret", <<>>)>>)
    /\ UNCHANGED <<loc, lockOwner, lockCount, tx, rx, dev, obj, ncalls, ntimeouts, hist>>

\* set_operation_mode: return response == ">"
set_operation_mode_ret(t) ==
    /\ At(t, "set_operation_mode_ret")
    /\ loc' = [loc EXCEPT ![t].ret = list_eq_str(loc[t].value, ACK)]
    /\ Goto(t, <<>>)
    /\ UNCHANGED <<lockOwner, lockCount, tx, rx, dev, obj, ncalls, ntimeouts, hist>>

\* _update_mode with the trigger type SOFTWARE: the flags it sets
update_mode_flags(mode, standby) ==
    [mode EXCEPT !.APC_mode = TRUE,
                 !.bias_level_release = ~standby,
                 !.operating_level_release = ~standby]

\* OmicronLaser._update_mode
update_mode_body ==
    get_operation_mode_body \o <<G("update_mode_assign", <<>>)>> \o set_operation_mode_body

update_mode_assign(t) ==
    /\ At(t, "update_mode_assign")
    /\ obj' = [obj EXCEPT !.operation_mode = update_mode_flags(@, obj.standby)]
    /\ Goto(t, <<>>)
    /\ UNCHANGED <<loc, lockOwner, lockCount, tx, rx, dev, ncalls, ntimeouts, hist>>

\* OmicronLaser.set_standby(enabled)
om_set_standby_body(enabled) == <<G("standby_assign", enabled)>> \o update_mode_body

\* set_standby: self.standby = enabled
standby_assign(t) ==
    /\ At(t, "standby_assign")
    /\ obj' = [obj EXCEPT !.standby = Top(t).arg]
    /\ Goto(t, <<>>)
    /\ UNCHANGED <<loc, lockOwner, lockCount, tx, rx, dev, ncalls, ntimeouts, hist>>

\* OmicronLaser._do_trigger (the trigger type is SOFTWARE)
om_do_trigger_body == om_set_standby_body(FALSE) \o <<G("om_timer_start", <<>>)>>

om_do_trigger(t) == OmicronCall(t, "_do_trigger", om_do_trigger_body)

\* _do_trigger: threading.Timer(self.exposure / 1000., self.set_standby, (True,)).start()
om_timer_start(t) ==
    /\ At(t, "om_timer_start")
    /\ hist' = [hist EXCEPT !.timers = @ + 1]
    /\ Goto(t, <<>>)
    /\ UNCHANGED <<loc, lockOwner, lockCount, tx, rx, dev, obj, ncalls, ntimeouts>>

\* the timer's thread runs set_standby(True) when the exposure has passed
om_timer_run(t) ==
    /\ Idle(t)
    /\ hist.timers > 0
    /\ hist' = [hist EXCEPT !.timers = @ - 1]
    /\ stack' = [stack EXCEPT ![t] = om_set_standby_body(TRUE)]
    /\ loc' = [loc EXCEPT ![t] = OmLocals("timer")]
    /\ UNCHANGED <<lockOwner, lockCount, tx, rx, dev, obj, ncalls, ntimeouts>>

\* the laser on the wire is the Omicron one
IsOmicron == "opmode" \in DOMAIN dev

\* one statement of thread t inside CoboltLaser06DPL._do_trigger or set_standby
CoboltTriggerStep(t) ==
    \/ timer_start(t)
    \/ ss_assign(t)
    \/ spm_assign(t)
    \/ send_write(t)
    \/ send_read(t)
    \/ return(t)

\* one statement of thread t inside OmicronLaser._do_trigger or set_standby
OmicronTriggerStep(t) ==
    \/ om_timer_start(t)
    \/ standby_assign(t)
    \/ operation_mode_assign(t)
    \/ update_mode_assign(t)
    \/ set_operation_mode(t)
    \/ set_operation_mode_ret(t)
    \/ q_write(t)
    \/ q_read(t)
    \/ ask_bytes_ret(t)
    \/ ask_ret(t)

\* one caller triggers the laser once; the timer its trigger starts; the
\* Omicron laser pushes one ad-hoc frame at most
NextTrigger ==
    \/ ~IsOmicron /\ CoboltDevice
    \/ IsOmicron /\ OmicronDevice
    \/ IsOmicron /\ hist.nframes = 0 /\ OmicronPush
    \/ \E t \in Threads :
        \/ ~IsOmicron /\ ncalls = 0 /\ do_trigger(t)
        \/ ~IsOmicron /\ timer_run(t)
        \/ IsOmicron /\ ncalls = 0 /\ om_do_trigger(t)
        \/ IsOmicron /\ om_timer_run(t)
        \/ lc_acquire(t)
        \/ lc_release(t)
        \/ CoboltTriggerStep(t)
        \/ OmicronTriggerStep(t)

\* a step of the laser, of the timer or of a thread inside the driver
TriggerRuns ==
    \/ ~IsOmicron /\ CoboltDevice
    \/ IsOmicron /\ OmicronDevice
    \/ \E t \in Threads :
        \/ ~IsOmicron /\ timer_run(t)
        \/ IsOmicron /\ om_timer_run(t)
        \/ lc_acquire(t)
        \/ lc_release(t)
        \/ CoboltTriggerStep(t)
        \/ OmicronTriggerStep(t)

\* either laser; the laser answers the lines it receives, a thread inside the
\* driver keeps running and a timer that was started expires: while one of
\* them can take a step, one does (such a step changes the length of tx, of
\* rx or of a stack, or the number of timers)
SpecTrigger ==
    /\ InitCobolt06DPL \/ InitOmicron
    /\ [][NextTrigger]_vars
    /\ WF_(<<Len(tx), Len(rx), hist.timers, [t \in Threads |-> Len(stack[t])]>>)(TriggerRuns)

C20_NoSpeculativeCache ==
    [][LET setting(standby) ==
               IF IsOmicron
               THEN /\ OperationMode(Hex(dev.opmode)).bias_level_release = ~standby
                    /\ OperationMode(Hex(dev.opmode)).operating_level_release = ~standby
               ELSE dev.current = mW2A_str(IF standby THEN STANDBY_POWER ELSE ACTIVE_POWER)
       IN /\ obj.standby' # obj.standby => setting(obj.standby')
          /\ (~IsOmicron /\ obj.theoretical_power' # obj.theoretical_power)
                => dev.current = mW2A_str(obj.theoretical_power')]_vars

\* ------------------------------------------------------ connection lifecycle
\* C21: once _do_shutdown has returned the serial connection is closed.
C21_ClosedAfterShutdown ==
    \A t \in Threads :
        (Idle(t) /\ loc[t].op = "_do_shutdown") => ~obj.connection_is_open

\* =========================================================================
\* The power of CoboltLaser and CoboltLaser06DPL: one _do_set_power(power)
\* followed by one _do_get_power(), by one caller
\* =========================================================================
\* a power (a fraction of the maximum) is counted in PowerUnits-ths; with
\* max_power_mw = 120 one count is 0.01 mW, the unit of STANDBY_POWER
PowerUnits == 12000

\* CoboltLaser.__init__: self._max_power_mw = 120
max_power_mw == 120

COBASP == <<"@", "c", "o", "b", "a", "s", "p", " ">>

\* "%.4f" % x for x >= 0 counted in ten-thousandths
Format4(n) ==
    LET d == n % 10000
    IN FormatInt(n \div 10000) \o <<".">>
       \o <<Digits[(d \div 1000) + 1], Digits[((d \div 100) % 10) + 1],
            Digits[((d \div 10) % 10) + 1], Digits[(d % 10) + 1]>>

\* float(s) counted in ten-thousandths, for a text of digits with a point and
\* up to four decimals; Bad for any other text (float raises ValueError)
ParseFloat4(s) ==
    LET dots == {i \in 1..Len(s) : s[i] = "."}
    IN IF Cardinality(dots) = 1
       THEN LET dot == CHOOSE i \in dots : TRUE
                int == ParseInt(SubSeq(s, 1, dot - 1))
                dec == SubSeq(s, dot + 1, Len(s))
                frac == ParseInt(dec \o [i \in 1..(4 - Len(dec)) |-> "0"])
            IN IF int = Bad \/ frac = Bad \/ Len(dec) > 4 THEN Bad ELSE int * 10000 + frac
       ELSE IF ParseInt(s) = Bad THEN Bad ELSE ParseInt(s) * 10000

\* a power sent in milliwatts instead of watts
W_str_milliwatt(mW) == Format4(mW * 100)

\* CoboltLaser._set_power_mw: W_str = "%.4f" % (mW / 1000.0), for mW counted in
\* hundredths of a mW (the quotient rounded to the nearest ten-thousandth of a W)
W_str(mW) == Format4((mW + 5) \div 10)

\* the laser takes the power it is told to hold
CoboltPowerState(cmd, d) ==
    IF StartsWith(cmd, COBASP) THEN [d EXCEPT !.power = SubSeq(cmd, Len(COBASP) + 1, Len(cmd))]
    ELSE CoboltNewState(cmd, d)

\* the laser's answers: the power it measures is the power it was told to hold
\* while it emits, and none while it does not
CoboltPowerReply(cmd, d) ==
    IF cmd = PA_Q THEN (IF d.on THEN d.power ELSE Format4(0)) ELSE CoboltReply(cmd, d)

\* _do_set_power(power): self._set_power_mw(power * self._max_power_mw)
\* CoboltLaser._set_power_mw sends "@cobasp " + W_str; CoboltLaser06DPL's sends
\* "smc " + mA_str and sets self.theoretical_power = mW
Power_do_set_power ==
    /\ loc.stage = "new"
    /\ LET mW == (loc.power * max_power_mw * 100) \div PowerUnits
           cmd == IF obj.class = "CoboltLaser06DPL" THEN SMC \o mW2A_str(mW)
                  ELSE COBASP \o W_str(mW)
       IN /\ hist' = [hist EXCEPT !.written = Append(@, cmd)]
          /\ dev' = CoboltPowerState(cmd, dev)
          /\ obj' = IF obj.class = "CoboltLaser06DPL"
                    THEN [obj EXCEPT !.theoretical_power = mW] ELSE obj
    /\ loc' = [loc EXCEPT !.stage = "set"]
    /\ UNCHANGED <<stack, lockOwner, lockCount, tx, rx, ncalls, ntimeouts>>

\* _do_get_power(): return self._get_power_mw() / self._max_power_mw
\* _get_power_mw: 0.0 if not self.get_is_on(); CoboltLaser's is
\* 1000 * float(self.send(b"pa?")), CoboltLaser06DPL's is self.theoretical_power
Power_do_get_power ==
    /\ loc.stage = "set"
    /\ LET is_on == CoboltPowerReply(L_Q, dev) = <<"1">>
           response == CoboltPowerReply(PA_Q, dev)
           mW == IF ~is_on THEN 0
                 ELSE IF obj.class = "CoboltLaser06DPL" THEN obj.theoretical_power
                 ELSE 10 * ParseFloat4(response)
       IN /\ loc' = [loc EXCEPT !.stage = "got",
                                !.ret = (mW * PowerUnits) \div (max_power_mw * 100)]
          /\ hist' = [hist EXCEPT !.written =
                         @ \o (IF is_on /\ obj.class = "CoboltLaser" THEN <<L_Q, PA_Q>> ELSE <<L_Q>>)]
    /\ UNCHANGED <<stack, lockOwner, lockCount, tx, rx, dev, obj, ncalls, ntimeouts>>

\* the powers a caller sets: thousandths of the maximum for CoboltLaser, and
\* the powers whose current is tabulated for CoboltLaser06DPL
PowerInputs(class) ==
    IF class = "CoboltLaser06DPL" THEN {0, STANDBY_POWER, 6000, ACTIVE_POWER, 12000}
    ELSE {(n * PowerUnits) \div 1000 : n \in 0..1000}

\* after __init__ of either class: the laser emits or not
InitPower ==
    /\ stack = <<>>
    /\ lockOwner = NoThread
    /\ lockCount = 0
    /\ tx = <<>>
    /\ rx = <<>>
    /\ \E class \in {"CoboltLaser", "CoboltLaser06DPL"} :
          /\ \E power \in PowerInputs(class) : loc = [stage |-> "new", power |-> power, ret |-> Bad]
          /\ obj = [class |-> class, exposure |-> 100, standby |-> TRUE, theoretical_power |-> 0]
    /\ \E on \in BOOLEAN :
          dev = [on |-> on, canEmit |-> TRUE, canStop |-> TRUE, power |-> Format4(0),
                 current |-> mW2A_str(0)]
    /\ ncalls = 0
    /\ ntimeouts = 0
    /\ hist = [written |-> <<>>]

NextPower == Power_do_set_power \/ Power_do_get_power

SpecPower == InitPower /\ [][NextPower]_vars

\* ------------------------------------------------------------- power claims
\* C22: _do_set_power(f) sends the power f * 120 mW (CoboltLaser: "@cobasp "
\* and the power in watts with four decimals, "@cobasp 0.0600" for f = 0.5),
\* and the _do_get_power() that follows returns f to within half of the last
\* decimal sent while the laser emits, and 0 while it does not; for
\* CoboltLaser06DPL it returns the cached theoretical power over 120, f, while
\* the laser emits, and 0 while it does not.
C22_PowerRoundTripEmitting ==
    LET f == loc.power
        tolerance == (5 * PowerUnits) \div (max_power_mw * 100)
    IN /\ (loc.stage # "new" /\ obj.class = "CoboltLaser") =>
             /\ hist.written[1] = COBASP \o Format4((f * max_power_mw * 10 + PowerUnits \div 2)
                                                    \div PowerUnits)
             /\ f = PowerUnits \div 2 => hist.written[1] = COBASP \o <<"0", ".", "0", "6", "0", "0">>
       /\ (loc.stage # "new" /\ obj.class = "CoboltLaser06DPL") =>
             /\ obj.theoretical_power * PowerUnits = f * max_power_mw * 100
             /\ StartsWith(hist.written[1], SMC)
       /\ loc.stage = "got" =>
             IF ~dev.on THEN loc.ret = 0
             ELSE IF obj.class = "CoboltLaser06DPL" THEN loc.ret = f
             ELSE loc.ret - f \in (0 - tolerance)..tolerance

\* half of the maximum was set on an emitting CoboltLaser and read back
C22_Witness ==
    /\ loc.stage = "got"
    /\ obj.class = "CoboltLaser"
    /\ dev.on
    /\ loc.power = PowerUnits \div 2
    /\ hist.written = <<COBASP \o <<"0", ".", "0", "6", "0", "0">>, L_Q, PA_Q>>
    /\ loc.ret = PowerUnits \div 2

\* C22 as stated: against a laser whose measured power is the commanded power
\* the round trip of CoboltLaser returns f within the tolerance, and the round
\* trip of CoboltLaser06DPL returns f.
C22_PowerRoundTrip ==
    LET f == loc.power
        tolerance == (5 * PowerUnits) \div (max_power_mw * 100)
    IN loc.stage = "got" =>
          IF obj.class = "CoboltLaser06DPL" THEN loc.ret = f
          ELSE CoboltPowerReply(PA_Q, dev) = dev.power => loc.ret - f \in (0 - tolerance)..tolerance

\* =========================================================================
\* Faults: CoboltLaser.clearFault, OmicronLaser.reset and _do_enable
\* =========================================================================
COB_0 == <<"@", "c", "o", "b", "0">>

\* CoboltLaser._do_shutdown: self.disable(); self.send(b"@cob0"); self.connection.flushInput()
do_shutdown_body ==
    lock_comms(disable_body \o send(COB_0) \o <<G("flushInput", <<>>), G("return", "None")>>)

do_shutdown(t) == CoboltCall(t, "_do_shutdown", do_shutdown_body)

\* CoboltLaser.clearFault: self.send(b"cf"); return self.get_status()
clearFault_body == lock_comms(send(CF) \o get_status_body)

clearFault(t) == CoboltCall(t, "clearFault", clearFault_body)

\* LatchedFailure(code)
LatchedFailure(bytes) ==
    [bytes |-> bytes,
     error_state |-> bit_enabled(bytes, 0),
     CDRH |-> bit_enabled(bytes, 4),
     internal_comunication_error |-> bit_enabled(bytes, 5),
     k1_relay_error |-> bit_enabled(bytes, 6),
     high_power |-> bit_enabled(bytes, 7),
     under_over_voltage |-> bit_enabled(bytes, 8),
     external_interlock |-> bit_enabled(bytes, 9),
     diode_current |-> bit_enabled(bytes, 10),
     ambient_temp |-> bit_enabled(bytes, 11),
     diode_temp |-> bit_enabled(bytes, 12),
     test_error |-> bit_enabled(bytes, 13),
     internal_error |-> bit_enabled(bytes, 14),
     diode_power |-> bit_enabled(bytes, 15)]

\* OmicronLaser.get_latched_failure
get_latched_failure_body == ask_bytes(GLF) \o <<G("latched_failure_assign", <<>>)>>

\* get_latched_failure: self.latched_failure = LatchedFailure(code)
latched_failure_assign(t) ==
    /\ At(t, "latched_failure_assign")
    /\ obj' = [obj EXCEPT !.latched_failure = <<LatchedFailure(loc[t].value)>>]
    /\ Goto(t, <<>>)
    /\ UNCHANGED <<loc, lockOwner, lockCount, tx, rx, dev, ncalls, ntimeouts, hist>>

\* OmicronLaser.laser_on: response = self._ask(b"LOn")[0] == ">"
\* (the frame that ends laser_off makes the same comparison)
laser_on_body == ask(LOn) \o <<G("laser_off_ret", <<>>)>>

\* OmicronLaser._do_enable
om_do_enable_body == laser_on_body \o <<G("om_en_check", <<>>)>>

om_do_enable(t) == OmicronCall(t, "_do_enable", om_do_enable_body)

\* an _do_enable that resets the laser when it did not switch on
om_en_check_resetting(t) ==
    /\ At(t, "om_en_check")
    /\ obj' = [obj EXCEPT !.is_on = loc[t].ret]
    /\ Goto(t, IF loc[t].ret THEN <<>> ELSE lock_comms(<<G("q_write", [n |-> 0, q |-> RsC])>>))
    /\ UNCHANGED <<loc, lockOwner, lockCount, tx, rx, dev, ncalls, ntimeouts, hist>>

\* _do_enable: self.is_on = self.laser_on()
\*             if not self.is_on: log get_status() and get_latched_failure(); return False
\*             return True
om_en_check(t) ==
    /\ At(t, "om_en_check")
    /\ obj' = [obj EXCEPT !.is_on = loc[t].ret]
    /\ Goto(t, IF loc[t].ret THEN <<>>
               ELSE om_get_status_body \o get_latched_failure_body \o <<G("om_return", FALSE)>>)
    /\ UNCHANGED <<loc, lockOwner, lockCount, tx, rx, dev, ncalls, ntimeouts, hist>>

\* return False / return True of _do_enable and reset
om_return(t) ==
    /\ At(t, "om_return")
    /\ Goto(t, <<>>)
    /\ loc' = [loc EXCEPT ![t].ret = Top(t).arg]
    /\ UNCHANGED <<lockOwner, lockCount, tx, rx, dev, obj, ncalls, ntimeouts, hist>>

\* OmicronLaser.reset
reset_body == lock_comms(query(RsC, 0) \o <<G("reset_check", <<>>)>>)

reset(t) == OmicronCall(t, "reset", reset_body)

\* reset: recv = response == b"!RsC\r"; if recv: ...; return False
reset_check(t) ==
    /\ At(t, "reset_check")
    /\ loc' = [loc EXCEPT ![t].value = <<>>]
    /\ Goto(t, IF loc[t].response = <<"!">> \o RsC \o CR THEN <<G("reset_read", <<>>)>>
               ELSE <<G("om_return", FALSE)>>)
    /\ UNCHANGED <<lockOwner, lockCount, tx, rx, dev, obj, ncalls, ntimeouts, hist>>

\* reset: response = self.connection.read_until(b"\r")
\*        while response != b"\x00$RsC>\r": response += self.connection.read_until(b"\r")
\*        return True
\* (value holds the lines read so far, joined)
reset_read(t) ==
    /\ At(t, "reset_read")
    /\ rx # <<>>
    /\ loc' = [loc EXCEPT ![t].value = @ \o Head(rx).data]
    /\ rx' = Tail(rx)
    /\ hist' = [hist EXCEPT !.io = IO(t, "read")]
    /\ Goto(t, IF loc[t].value \o Head(rx).data = RESET_DONE THEN <<G("om_return", TRUE)>>
               ELSE <<G("reset_read", <<>>)>>)
    /\ UNCHANGED <<lockOwner, lockCount, tx, dev, obj, ncalls, ntimeouts>>

\* the laser enters its error state (the interlock opens)
OmicronFault ==
    /\ ~OmicronError(dev)
    /\ dev' = [dev EXCEPT !.status = @ + 1, !.on = FALSE]
    /\ UNCHANGED <<stack, loc, lockOwner, lockCount, tx, rx, obj, ncalls, ntimeouts, hist>>

\* callers of either laser that enable it, read its status, shut it down and
\* clear its faults
NextFault ==
    \/ ~IsOmicron /\ CoboltDevice
    \/ IsOmicron /\ OmicronDevice
    \/ IsOmicron /\ OmicronFault
    \/ IsOmicron /\ hist.nframes = 0 /\ OmicronPush
    \/ \E t \in Threads :
        \/ ~IsOmicron /\ get_status(t)
        \/ ~IsOmicron /\ do_shutdown(t)
        \/ ~IsOmicron /\ do_enable(t)
        \/ ~IsOmicron /\ clearFault(t)
        \/ IsOmicron /\ om_get_status(t)
        \/ IsOmicron /\ om_do_shutdown(t)
        \/ IsOmicron /\ om_do_enable(t)
        \/ IsOmicron /\ reset(t)
        \/ lc_acquire(t)
        \/ lc_release(t)
        \/ send_write(t)
        \/ send_read(t)
        \/ flushInput(t)
        \/ gs_append(t)
        \/ en_check(t)
        \/ return(t)
        \/ q_write(t)
        \/ q_read(t)
        \/ ask_bytes_ret(t)
        \/ ask_ret(t)
        \/ status_assign(t)
        \/ latched_failure_assign(t)
        \/ laser_off_ret(t)
        \/ om_flushInput(t)
        \/ om_en_check(t)
        \/ om_return(t)
        \/ reset_check(t)
        \/ reset_read(t)

SpecFault == (InitCobolt \/ InitOmicron) /\ [][NextFault]_vars

\* ------------------------------------------------------------- fault claims
\* C23: a line that clears faults ("cf" for the Cobolt laser, "?RsC" for the
\* Omicron laser) is written only by a thread that is inside clearFault or
\* reset, whatever the laser has reported.
C23_NoAutomaticFaultClearing ==
    [][Len(tx') > Len(tx) =>
          (tx'[Len(tx')].data \in {CF \o CRLF, <<"?">> \o RsC \o CR} =>
              \E t \in Threads :
                  /\ stack'[t] # stack[t]
                  /\ loc'[t].op \in {"clearFault", "reset"})]_vars

\* an _do_enable of the Omicron laser has returned False, the laser is still
\* in its error state, and another caller's reset has just written "?RsC"
C23_Witness ==
    /\ IsOmicron
    /\ OmicronError(dev)
    /\ tx # <<>>
    /\ tx[Len(tx)].data = <<"?">> \o RsC \o CR
    /\ \E t, u \in Threads :
        /\ Idle(t) /\ loc[t].op = "_do_enable" /\ loc[t].ret = FALSE
        /\ obj.latched_failure # <<>> /\ obj.latched_failure[1].external_interlock
        /\ ~Idle(u) /\ loc[u].op = "reset"

\* =========================================================================
\* _do_shutdown while the timer of a software trigger is pending
\* =========================================================================
\* one caller triggers the laser once; _do_shutdown is called while the
\* trigger's timer has been started and has not yet expired
NextShutdown ==
    \/ ~IsOmicron /\ CoboltDevice
    \/ IsOmicron /\ OmicronDevice
    \/ \E t \in Threads :
        \/ ~IsOmicron /\ ncalls = 0 /\ do_trigger(t)
        \/ ~IsOmicron /\ timer_run(t)
        \/ ~IsOmicron /\ hist.timers > 0 /\ do_shutdown(t)
        \/ IsOmicron /\ ncalls = 0 /\ om_do_trigger(t)
        \/ IsOmicron /\ om_timer_run(t)
        \/ IsOmicron /\ hist.timers > 0 /\ om_do_shutdown(t)
        \/ lc_acquire(t)
        \/ lc_release(t)
        \/ CoboltTriggerStep(t)
        \/ flushInput(t)
        \/ OmicronTriggerStep(t)
        \/ laser_off_ret(t)
        \/ om_flushInput(t)

SpecShutdown == (InitCobolt06DPL \/ InitOmicron) /\ [][NextShutdown]_vars

\* C24: once a _do_shutdown that was called while a trigger's timer was
\* pending has returned, the timer's callback writes nothing to the connection.
C24_ShutdownCancelsTimer ==
    [][(\E u \in Threads : Idle(u) /\ loc[u].op = "_do_shutdown") =>
          ~(\E t \in Threads :
                /\ loc'[t].op = "timer"
                /\ stack'[t] # stack[t]
                /\ Len(tx') > Len(tx))]_vars

\* ------------------------------------------------- Omicron concurrency claims
\* C25: when a get_status and another caller's exchange have both completed
\* and nothing is left on the wire, the cached status is the decode of the
\* status code the laser sent last (in a GAS reply or in a pushed $GAS frame).
C25_StatusCacheIsLastSent ==
    \A t, u \in Threads :
        (/\ t # u
         /\ Idle(t) /\ loc[t].op = "get_status"
         /\ Idle(u) /\ loc[u].op \in {"get_status", "get_operation_mode", "measure_diode_power"}
         /\ tx = <<>> /\ rx = <<>>
         /\ hist.lastStatus # <<>>)
        => obj.status = <<Status(hist.lastStatus)>>

\* =========================================================================
\* set_standby from callers and from the timers of software triggers
\* =========================================================================
om_set_standby(t, enabled) == OmicronCall(t, "set_standby", om_set_standby_body(enabled))

\* callers of either laser call set_standby and _do_trigger in any order, on
\* any thread; the timers of the triggers run set_standby(True)
NextStandby ==
    \/ ~IsOmicron /\ CoboltDevice
    \/ IsOmicron /\ OmicronDevice
    \/ \E t \in Threads :
        \/ ~IsOmicron /\ \E enabled \in BOOLEAN : set_standby(t, enabled)
        \/ ~IsOmicron /\ do_trigger(t)
        \/ ~IsOmicron /\ timer_run(t)
        \/ IsOmicron /\ \E enabled \in BOOLEAN : om_set_standby(t, enabled)
        \/ IsOmicron /\ om_do_trigger(t)
        \/ IsOmicron /\ om_timer_run(t)
        \/ lc_acquire(t)
        \/ lc_release(t)
        \/ CoboltTriggerStep(t)
        \/ OmicronTriggerStep(t)

SpecStandby == (InitCobolt06DPL \/ InitOmicron) /\ [][NextStandby]_vars

\* every call has completed, no timer is pending and the laser has taken
\* every line written to it
StandbyQuiet ==
    /\ \A t \in Threads : Idle(t)
    /\ \E t \in Threads : loc[t].op \in {"set_standby", "timer"}
    /\ hist.timers = 0
    /\ tx = <<>>

\* C26: OmicronLaser, once every set_standby has completed: the operation
\* mode the laser holds (the last SOM written) has bias_level_release and
\* operating_level_release equal to the negation of the standby field.
C26_OmicronStandbyMatchesMode ==
    (IsOmicron /\ StandbyQuiet) =>
        LET mode == OperationMode(Hex(dev.opmode))
        IN /\ mode.bias_level_release = ~obj.standby
           /\ mode.operating_level_release = ~obj.standby

\* C27: CoboltLaser06DPL, once every set_standby has completed: standby is
\* True exactly when the last power commanded to the laser, and
\* theoretical_power, is the standby power, and False exactly when it is the
\* active power.
C27_CoboltStandbyMatchesPower ==
    (~IsOmicron /\ StandbyQuiet) =>
        LET power == IF obj.standby THEN STANDBY_POWER ELSE ACTIVE_POWER
        IN /\ dev.current = mW2A_str(power)
           /\ obj.theoretical_power = power

\* =========================================================================
\* Overlapping software triggers
\* =========================================================================
\* callers trigger either laser, a second time while the timer of the first
\* trigger may still be pending; all timers wait for the same exposure, so
\* the timer that expires is the one that was started first
NextOverlap ==
    \/ ~IsOmicron /\ CoboltDevice
    \/ IsOmicron /\ OmicronDevice
    \/ \E t \in Threads :
        \/ ~IsOmicron /\ do_trigger(t)
        \/ ~IsOmicron /\ timer_run(t)
        \/ IsOmicron /\ om_do_trigger(t)
        \/ IsOmicron /\ om_timer_run(t)
        \/ lc_acquire(t)
        \/ lc_release(t)
        \/ CoboltTriggerStep(t)
        \/ OmicronTriggerStep(t)

SpecOverlap == (InitCobolt06DPL \/ InitOmicron) /\ [][NextOverlap]_vars

\* the laser holds the setting of standby
LaserInStandby ==
    IF IsOmicron
    THEN LET mode == OperationMode(Hex(dev.opmode))
         IN ~mode.bias_level_release \/ ~mode.operating_level_release
    ELSE dev.current # mW2A_str(ACTIVE_POWER)

\* C28: while the timer of the latest trigger is pending (its trigger has
\* returned, no call is running and the laser has taken every line) the
\* laser is not in standby: no earlier timer has put it back.
C28_NoStandbyWhileTimerPending ==
    (/\ hist.timers > 0
     /\ \A t \in Threads : Idle(t)
     /\ tx = <<>>)
    => ~LaserInStandby

\* --------------------------------------------- Omicron operation-mode claims
\* the bits of the operation mode that _update_mode sets (bias level release,
\* operating level release, APC mode)
UpdateModeBits == {3, 4, 8}

\* C29: when _update_mode writes the operation mode back (SOM), every bit
\* other than 3, 4 and 8 has the value it had in the GOM reply the same call
\* has just read.
C29_UpdateModeFrame ==
    [][\A t \in Threads :
          (/\ At(t, "q_write")
           /\ StartsWith(Top(t).arg.q, SOM)
           /\ stack'[t] # stack[t])
          => \A b \in (0 .. 15) \ UpdateModeBits :
                bit_enabled(Slice(Top(t).arg.q, 3, Len(Top(t).arg.q) - 1), b)
                    = bit_enabled(loc[t].value, b)]_vars

\* C30: set_operation_mode returns True exactly when the payload of the
\* laser's reply to the SOM command is the acknowledgement ">" (as laser_off
\* and laser_on do for their commands).
C30_SetReturnsAcknowledgement ==
    [][\A t \in Threads :
          (At(t, "set_operation_mode_ret") /\ stack'[t] # stack[t])
          => loc'[t].ret = (loc[t].value[1] = ACK)]_vars

\* =========================================================================
\* The power of OmicronLaser: set_level_power, _do_set_power, _do_enable,
\* _do_disable
\* =========================================================================
\* a power (a fraction of the maximum) is counted in LevelUnits-ths: 2 is 0.5,
\* 4 is 1.0, 6 is 1.5; these fractions are exact as floats
LevelUnits == 4

\* the powers callers ask for: 0, 0.25, ... , 1.5
MaxLevelPower == 6

\* 0xFFF
MAX_LEVEL == 4095

\* set_level_power: level = int(power * 0xFFF)
level(power) == (power * MAX_LEVEL) \div LevelUnits

\* OmicronLaser.set_level_power(power); the error it logs for power > 1.0
\* changes nothing and the method goes on
set_level_power_body(power) ==
    set(SLP, Hex(level(power))) \o <<G("set_level_power_ret", <<>>)>>

set_level_power(t, power) == OmicronCall(t, "set_level_power", set_level_power_body(power))

\* set_level_power: return response == ">"
set_level_power_ret(t) ==
    /\ At(t, "set_level_power_ret")
    /\ loc' = [loc EXCEPT ![t].ret = list_eq_str(loc[t].value, ACK)]
    /\ Goto(t, <<>>)
    /\ UNCHANGED <<lockOwner, lockCount, tx, rx, dev, obj, ncalls, ntimeouts, hist>>

\* OmicronLaser._do_set_power(power)
om_do_set_power_body(power) == <<G("set_point_assign", power), G("set_power_check", power)>>

om_do_set_power(t, power) == OmicronCall(t, "_do_set_power", om_do_set_power_body(power))

\* _do_set_power: self._set_point = power
set_point_assign(t) ==
    /\ At(t, "set_point_assign")
    /\ obj' = [obj EXCEPT !.set_point = Top(t).arg]
    /\ Goto(t, <<>>)
    /\ UNCHANGED <<loc, lockOwner, lockCount, tx, rx, dev, ncalls, ntimeouts, hist>>

\* _do_set_power: if self.is_on: self.set_level_power(power)
set_power_check(t) ==
    /\ At(t, "set_power_check")
    /\ Goto(t, IF obj.is_on THEN set_level_power_body(Top(t).arg) ELSE <<>>)
    /\ UNCHANGED <<loc, lockOwner, lockCount, tx, rx, dev, obj, ncalls, ntimeouts, hist>>

\* OmicronLaser._do_disable
om_do_disable_body == laser_off_body \o <<G("om_dis_assign", <<>>)>>

om_do_disable(t) == OmicronCall(t, "_do_disable", om_do_disable_body)

\* _do_disable: self.is_on = not self.laser_off()
om_dis_assign(t) ==
    /\ At(t, "om_dis_assign")
    /\ obj' = [obj EXCEPT !.is_on = ~loc[t].ret]
    /\ Goto(t, <<>>)
    /\ UNCHANGED <<loc, lockOwner, lockCount, tx, rx, dev, ncalls, ntimeouts, hist>>

\* callers set the power, directly or through _do_set_power, and switch the
\* laser on and off
NextOmicronPower ==
    \/ OmicronDevice
    \/ \E t \in Threads :
        \/ \E power \in 0 .. MaxLevelPower : set_level_power(t, power)
        \/ \E power \in 0 .. MaxLevelPower : om_do_set_power(t, power)
        \/ om_do_enable(t)
        \/ om_do_disable(t)
        \/ lc_acquire(t)
        \/ lc_release(t)
        \/ q_write(t)
        \/ q_read(t)
        \/ ask_ret(t)
        \/ laser_off_ret(t)
        \/ om_en_check(t)
        \/ om_dis_assign(t)
        \/ set_point_assign(t)
        \/ set_power_check(t)
        \/ set_level_power_ret(t)

SpecOmicronPower == InitOmicron /\ [][NextOmicronPower]_vars

\* ------------------------------------------------------ Omicron power claims
\* C31: every SLP command written to the wire carries a level within
\* [0, 0xFFF], also when set_level_power is called with a power above 1.0.
C31_LevelInRange ==
    [][\A t \in Threads :
          (/\ At(t, "q_write")
           /\ StartsWith(Top(t).arg.q, SLP)
           /\ stack'[t] # stack[t])
          => LET l == ParseHex(Slice(Top(t).arg.q, 3, Len(Top(t).arg.q) - 1))
             IN l # Bad /\ l >= 0 /\ l <= MAX_LEVEL]_vars

\* no call is running and the laser has taken every line written to it
OmicronQuiet ==
    /\ \A t \in Threads : Idle(t)
    /\ tx = <<>>

\* C33: after _do_set_power and _do_enable calls, in any order, that end with
\* the laser on, the laser holds the level of the power requested last.
C33_SetPointApplied ==
    (/\ OmicronQuiet
     /\ \A t \in Threads : loc[t].op \in {"none", "_do_set_power", "_do_enable"}
     /\ \E t \in Threads : loc[t].op = "_do_set_power"
     /\ obj.is_on /\ dev.on)
    => dev.level = level(obj.set_point)

\* =========================================================================
\* OmicronLaser.reset and the lines the laser emits while it resets
\* =========================================================================
\* the most lines the laser emits between "!RsC" and the completion frame
MaxResetLines == 2

\* a line the laser emits while it resets: in ad-hoc mode, its status
RESET_LINE == <<"$">> \o GAS \o Hex(DEVICE_STATUS) \o CR

RECURSIVE Repeat(_, _)
Repeat(e, n) == IF n = 0 THEN <<>> ELSE <<e>> \o Repeat(e, n - 1)

\* the laser takes "?RsC": it acknowledges with "!RsC", emits some lines and
\* then the completion frame; or it refuses ("!RsCx") and emits nothing more
OmicronDeviceReset ==
    /\ tx # <<>>
    /\ Slice(Head(tx).data, 1, 4) = RsC
    /\ \/ \E n \in 0 .. MaxResetLines :
            /\ rx' = Append(rx, [data |-> <<"!">> \o RsC \o CR, kind |-> "reply",
                                 call |-> Head(tx).call])
                     \o Repeat([data |-> RESET_LINE, kind |-> "adhoc", call |-> 0], n)
                     \o OmicronAfter(RsC)
            /\ dev' = OmicronNewState(RsC, <<>>, dev)
            /\ hist' = [hist EXCEPT !.lastStatus = IF n > 0 THEN Hex(DEVICE_STATUS) ELSE @]
       \/ /\ rx' = Append(rx, [data |-> <<"!">> \o RsC \o <<"x">> \o CR, kind |-> "reply",
                               call |-> Head(tx).call])
          /\ UNCHANGED <<dev, hist>>
    /\ tx' = Tail(tx)
    /\ UNCHANGED <<stack, loc, lockOwner, lockCount, obj, ncalls, ntimeouts>>

NextReset ==
    \/ OmicronDeviceReset
    \/ \E t \in Threads :
        \/ reset(t)
        \/ lc_acquire(t)
        \/ lc_release(t)
        \/ q_write(t)
        \/ q_read(t)
        \/ reset_check(t)
        \/ reset_read(t)
        \/ om_return(t)

\* what runs on its own: the laser and the threads inside reset
ResetRuns ==
    \/ OmicronDeviceReset
    \/ \E t \in Threads :
          (lc_acquire(t) \/ lc_release(t) \/ q_write(t) \/ q_read(t)
             \/ reset_check(t) \/ reset_read(t) \/ om_return(t))

\* the laser answers every line and every thread inside the driver keeps
\* running (the reads block: the port is opened without a timeout)
SpecReset ==
    /\ InitOmicron
    /\ [][NextReset]_vars
    /\ WF_(<<Len(tx), Len(rx), [t \in Threads |-> Len(stack[t])],
              [t \in Threads |-> IF Idle(t) THEN "" ELSE Top(t).op]>>)(ResetRuns)

\* C32: a reset that the laser acknowledges and completes terminates,
\* whatever lines the laser emits in between; a reset it refuses terminates
\* too.
C32_ResetTerminates ==
    \A t \in Threads : (loc[t].op = "reset") ~> Idle(t)

\* =========================================================================
\* HDMIslm, lights/meadowlark.py
\* =========================================================================
\* the entries (angle, phase, wavelength) callers build sequences from
SimEntries == {<<10, 100, 1000>>, <<20, 100, 1000>>, <<30, 300, 3000>>}

\* the longest sequence passed to set_sim_sequence
MaxSeqLen == 2

\* the positions and angles callers ask for
SimPositions == 0 .. 2
SimAngles == {10, 20}

patterns_path == "patterns"

\* f"angle{angle}_phase{phase}_nm{wavelength}.jpg"
file_name(e) == [angle |-> e[1], phase |-> e[2], nm |-> e[3], ext |-> "jpg"]

\* os.path.join(self.patterns_path, file_name)
path_join(dir, name) == <<dir, name>>

\* dict(enumerate(list)): the keys are 0 .. len(list) - 1
dict_enumerate(list) == [i \in 0 .. Len(list) - 1 |-> list[i + 1]]

\* the sequences of at most n entries
SimSequences(n) == UNION {[1 .. k -> SimEntries] : k \in 0 .. n}

\* every order os.listdir may list the files of the directory in
Listings(names) ==
    {l \in [1 .. Cardinality(names) -> names] : \A n \in names : \E i \in DOMAIN l : l[i] = n}

SlmLocals(op, raised) == [op |-> op, raised |-> raised]

\* after HDMIslm.__init__: dev.files are the pattern files that exist
InitSlm ==
    /\ stack = <<>>
    /\ lockOwner = NoThread
    /\ lockCount = 0
    /\ tx = <<>>
    /\ rx = <<>>
    /\ ntimeouts = 0
    /\ ncalls = 0
    /\ loc = SlmLocals("none", "none")
    /\ \E E \in SUBSET SimEntries :
          /\ dev = [files |-> {path_join(patterns_path, file_name(e)) : e \in E}]
          /\ \E l \in Listings({file_name(e) : e \in E}) :
                obj = [patterns |-> dict_enumerate([i \in DOMAIN l |-> <<l[i]>>]),
                       sequence |-> dict_enumerate(<<>>),
                       idx_image |-> 0,
                       label |-> <<>>]
    /\ hist = [patterns |-> <<>>, sequence |-> <<>>]

\* the iterations of the loop of set_sim_sequence that store a pattern: all
\* of them, or those before the first file that does not exist
stored(sequence, files) ==
    LET missing == {i \in 1 .. Len(sequence) :
                        path_join(patterns_path, file_name(sequence[i])) \notin files}
    IN IF missing = {} THEN Len(sequence)
       ELSE (CHOOSE i \in missing : \A j \in missing : i <= j) - 1

\* HDMIslm.set_sim_sequence(sequence); hist keeps the mappings before the call
set_sim_sequence(sequence) ==
    /\ ncalls < MaxCalls
    /\ ncalls' = ncalls + 1
    /\ LET n == stored(sequence, dev.files)
       IN /\ obj' = [obj EXCEPT
                       !.patterns = [i \in 0 .. n - 1 |->
                                        path_join(patterns_path, file_name(sequence[i + 1]))],
                       !.sequence = dict_enumerate(sequence)]
          /\ loc' = SlmLocals("set_sim_sequence",
                              IF n = Len(sequence) THEN "none" ELSE "FileNotFoundError")
    /\ hist' = [patterns |-> obj.patterns, sequence |-> obj.sequence]
    /\ UNCHANGED <<stack, lockOwner, lockCount, tx, rx, dev, ntimeouts>>

\* HDMIslm.cycleToPosition(target_position), with _update_pattern
cycleToPosition(target_position) ==
    /\ ncalls < MaxCalls
    /\ ncalls' = ncalls + 1
    /\ IF target_position \in DOMAIN obj.patterns
       THEN /\ obj' = [obj EXCEPT !.idx_image = target_position,
                                  !.label = obj.patterns[target_position]]
            /\ loc' = SlmLocals("cycleToPosition", "none")
       ELSE /\ obj' = [obj EXCEPT !.idx_image = target_position]
            /\ loc' = SlmLocals("cycleToPosition", "KeyError")
    /\ UNCHANGED <<stack, lockOwner, lockCount, tx, rx, dev, ntimeouts, hist>>

\* HDMIslm.set_sim_diffraction_angle(theta), with _update_pattern
set_sim_diffraction_angle(theta) ==
    /\ ncalls < MaxCalls
    /\ ncalls' = ncalls + 1
    /\ IF obj.idx_image \notin DOMAIN obj.sequence
       THEN /\ loc' = SlmLocals("set_sim_diffraction_angle", "KeyError")
            /\ UNCHANGED obj
       ELSE LET current == obj.sequence[obj.idx_image]
                found == {i \in DOMAIN obj.sequence :
                             /\ obj.sequence[i][1] = theta
                             /\ obj.sequence[i][2] = current[2]
                             /\ obj.sequence[i][3] = current[3]}
            IN IF found = {}
               THEN /\ loc' = SlmLocals("set_sim_diffraction_angle", "RuntimeError")
                    /\ UNCHANGED obj
               ELSE LET i == CHOOSE x \in found : \A y \in found : x <= y
                    IN IF i \in DOMAIN obj.patterns
                       THEN /\ obj' = [obj EXCEPT !.idx_image = i, !.label = obj.patterns[i]]
                            /\ loc' = SlmLocals("set_sim_diffraction_angle", "none")
                       ELSE /\ obj' = [obj EXCEPT !.idx_image = i]
                            /\ loc' = SlmLocals("set_sim_diffraction_angle", "KeyError")
    /\ UNCHANGED <<stack, lockOwner, lockCount, tx, rx, dev, ntimeouts, hist>>

NextSlm ==
    \/ \E sequence \in SimSequences(MaxSeqLen) : set_sim_sequence(sequence)
    \/ \E target_position \in SimPositions : cycleToPosition(target_position)
    \/ \E theta \in SimAngles : set_sim_diffraction_angle(theta)

SpecSlm == InitSlm /\ [][NextSlm]_vars

\* C34: a set_sim_sequence that raised FileNotFoundError has left patterns and
\* sequence as they were before the call; one that succeeded has left them
\* with the same keys, 0 .. len(sequence) - 1.
C34_SequenceErrorAtomic ==
    loc.op = "set_sim_sequence" =>
        IF loc.raised = "FileNotFoundError"
        THEN /\ DOMAIN obj.patterns = DOMAIN hist.patterns
             /\ DOMAIN obj.sequence = DOMAIN hist.sequence
             /\ \A i \in DOMAIN obj.patterns : obj.patterns[i] = hist.patterns[i]
             /\ \A i \in DOMAIN obj.sequence : obj.sequence[i] = hist.sequence[i]
        ELSE DOMAIN obj.patterns = DOMAIN obj.sequence

====
